---------------------------- MODULE Spec2Model ----------------------------
(***************************************************************************)
(* Model of the macro tracking core of luna-ext-grocy: the day-boundary    *)
(* resolver (lib/macro_tracking/day_utils.py), the local ledger            *)
(* (lib/db.py, macro_db.py), the macro aggregation engine                  *)
(* (macro_aggregator.py) and the pagination wrapper                        *)
(* (integrations/macros.py, api.py).                                       *)
(*                                                                         *)
(* Representation.                                                         *)
(*  - A Python str that the code parses (an environment value, a stored    *)
(*    config value) is a sequence of one-character strings; None is the    *)
(*    value None below.                                                    *)
(*  - A day string "YYYY-MM-DD" is the triple <<y, m, d>> of its fields;   *)
(*    with zero padding the lexical order of the strings is the            *)
(*    lexicographic order of the triples.                                  *)
(*  - A datetime is the record [y, m, d, hh, mi, ss] of its fields         *)
(*    (one-second resolution); timedelta arithmetic goes through the       *)
(*    proleptic Gregorian ordinal, as in CPython.                          *)
(*  - A float macro value is a fixed-point integer in thousandths          *)
(*    (150.7 is 150700); int() truncates it toward zero to whole units,    *)
(*    round(x, 2) rounds it to a multiple of 10 thousandths.               *)
(***************************************************************************)
EXTENDS Integers, Sequences, FiniteSets, TLC

VARIABLES
    now,         \* the wall clock, datetime.now()
    env,         \* os.environ: variable name -> str or None
    config,      \* table grocy_config: key -> value or None (no row)
    temp_items,  \* table grocy_temp_items: rows in created_at order
    next_id,     \* the SERIAL sequence of grocy_temp_items.id
    meal_plan,   \* the backend's /objects/meal_plan list
    stock,       \* the backend's stock: product_id -> amount, last price
    ret          \* the last call and what it returned

vars == <<now, env, config, temp_items, next_id, meal_plan, stock, ret>>

None == <<"None">>

\* the products of the backend; amounts and prices are in thousandths
Products == {3, 4, 6}

InitialStock == [p \in Products |-> [amount |-> 2000, price |-> 0]]

----------------------------------------------------------------------------
(* Python str -> number conversions                                        *)

DigitChars == <<"0", "1", "2", "3", "4", "5", "6", "7", "8", "9">>

IsDigit(c) == \E i \in 1..10 : DigitChars[i] = c

DigitVal(c) == (CHOOSE i \in 1..10 : DigitChars[i] = c) - 1

\* str.isdigit(): non-empty and every character a digit
isdigit(s) == Len(s) > 0 /\ \A i \in 1..Len(s) : IsDigit(s[i])

RECURSIVE DigitsVal(_)
DigitsVal(s) ==
    IF s = <<>> THEN 0
    ELSE 10 * DigitsVal(SubSeq(s, 1, Len(s) - 1)) + DigitVal(s[Len(s)])

RECURSIVE LStrip(_)
LStrip(s) == IF s # <<>> /\ s[1] = " " THEN LStrip(Tail(s)) ELSE s

RECURSIVE RStrip(_)
RStrip(s) ==
    IF s # <<>> /\ s[Len(s)] = " " THEN RStrip(SubSeq(s, 1, Len(s) - 1)) ELSE s

Strip(s) == RStrip(LStrip(s))

Fail == [ok |-> FALSE, val |-> 0]

Ok(v) == [ok |-> TRUE, val |-> v]

\* the value with its sign applied, when the digits parsed
Signed(sign, magnitude) ==
    IF ~magnitude.ok THEN Fail
    ELSE IF sign = "-" THEN Ok(0 - magnitude.val)
    ELSE magnitude

IntMagnitude(body) == IF isdigit(body) THEN Ok(DigitsVal(body)) ELSE Fail

IntOfStripped(t) ==
    IF t # <<>> /\ t[1] \in {"+", "-"} THEN Signed(t[1], IntMagnitude(Tail(t)))
    ELSE IntMagnitude(t)

\* int(s) for a str: surrounding blanks, an optional sign, decimal digits;
\* anything else raises ValueError (ok = FALSE).  int(None) raises TypeError.
ParseInt(s) == IF s = None THEN Fail ELSE IntOfStripped(Strip(s))

\* the position of the first "." of body, Len(body) + 1 when there is none
DotIndex(body) ==
    IF \E i \in 1..Len(body) : body[i] = "."
    THEN CHOOSE i \in 1..Len(body) :
            body[i] = "." /\ \A j \in 1..(i - 1) : body[j] # "."
    ELSE Len(body) + 1

\* integer part ip and fraction fp: at least one of them, digits only
\* (digits of the fraction past the third are dropped)
FloatDigits(ip, fp) ==
    IF \/ ip = <<>> /\ fp = <<>>
       \/ ip # <<>> /\ ~isdigit(ip)
       \/ fp # <<>> /\ ~isdigit(fp)
    THEN Fail
    ELSE Ok(DigitsVal(ip) * 1000
            + DigitsVal(SubSeq(fp \o <<"0", "0", "0">>, 1, 3)))

FloatParts(body, dot) ==
    FloatDigits(SubSeq(body, 1, dot - 1), SubSeq(body, dot + 1, Len(body)))

FloatMagnitude(body) == FloatParts(body, DotIndex(body))

FloatOfStripped(t) ==
    IF t # <<>> /\ t[1] \in {"+", "-"}
    THEN Signed(t[1], FloatMagnitude(Tail(t)))
    ELSE FloatMagnitude(t)

\* float(s) for a str, in thousandths: surrounding blanks, an optional sign,
\* digits with an optional fraction; anything else raises ValueError.
ParseFloat(s) == IF s = None THEN Fail ELSE FloatOfStripped(Strip(s))

\* int(x) for a float x in thousandths: truncation toward zero, whole units
TruncInt(x) == IF x >= 0 THEN x \div 1000 ELSE 0 - ((0 - x) \div 1000)

\* float(n) for a whole number: the same value in thousandths
ToFloat(n) == n * 1000

\* round(x, 2) for a float x in thousandths (ties to even on the decimal value)
Round2(x) ==
    LET q == x \div 10
        r == x % 10
    IN  IF r < 5 THEN q * 10
        ELSE IF r > 5 THEN (q + 1) * 10
        ELSE IF q % 2 = 0 THEN q * 10 ELSE (q + 1) * 10

----------------------------------------------------------------------------
(* Calendar: datetime, timedelta, strftime/strptime with "%Y-%m-%d"        *)

IsLeap(y) == y % 4 = 0 /\ (y % 100 # 0 \/ y % 400 = 0)

DaysInMonth(y, m) ==
    IF m = 2 THEN (IF IsLeap(y) THEN 29 ELSE 28)
    ELSE IF m \in {4, 6, 9, 11} THEN 30 ELSE 31

DaysBeforeYear(y) ==
    LET p == y - 1 IN p * 365 + p \div 4 - p \div 100 + p \div 400

RECURSIVE DaysBeforeMonth(_, _)
DaysBeforeMonth(y, m) ==
    IF m = 1 THEN 0 ELSE DaysBeforeMonth(y, m - 1) + DaysInMonth(y, m - 1)

ValidDate(y, m, d) ==
    y \in 1..9999 /\ m \in 1..12 /\ d \in 1..DaysInMonth(y, m)

\* date.toordinal()
ymd2ord(y, m, d) == DaysBeforeYear(y) + DaysBeforeMonth(y, m) + d

\* date.fromordinal(n)
ord2ymd(n) ==
    LET y0 == (n * 400) \div 146097 + 1
        y == CHOOSE c \in {y0 - 1, y0, y0 + 1} :
                 DaysBeforeYear(c) < n /\ n <= DaysBeforeYear(c + 1)
        k == n - DaysBeforeYear(y)
        m == CHOOSE c \in 1..12 :
                 DaysBeforeMonth(y, c) < k
                 /\ k <= DaysBeforeMonth(y, c) + DaysInMonth(y, c)
    IN  <<y, m, k - DaysBeforeMonth(y, m)>>

DateTime(y, m, d, hh, mi, ss) ==
    [y |-> y, m |-> m, d |-> d, hh |-> hh, mi |-> mi, ss |-> ss]

\* a - b as a timedelta, in seconds
DiffSeconds(a, b) ==
    (ymd2ord(a.y, a.m, a.d) - ymd2ord(b.y, b.m, b.d)) * 86400
    + (a.hh - b.hh) * 3600 + (a.mi - b.mi) * 60 + (a.ss - b.ss)

\* a <= b for datetimes
DtLeq(a, b) == DiffSeconds(a, b) <= 0

\* dt + timedelta(seconds = n), n of either sign
AddSeconds(dt, n) ==
    LET t == dt.hh * 3600 + dt.mi * 60 + dt.ss + n
        date == ord2ymd(ymd2ord(dt.y, dt.m, dt.d) + (t \div 86400))
        s == t % 86400
    IN  DateTime(date[1], date[2], date[3],
                 s \div 3600, (s % 3600) \div 60, s % 60)

\* dt.strftime("%Y-%m-%d")
strftime(dt) == <<dt.y, dt.m, dt.d>>

\* datetime.strptime(day, "%Y-%m-%d"): ValueError for a day that is no date
strptime(day) ==
    IF ValidDate(day[1], day[2], day[3])
    THEN Ok(DateTime(day[1], day[2], day[3], 0, 0, 0))
    ELSE Fail

\* lexical order of two day strings
DayLess(a, b) ==
    \/ a[1] < b[1]
    \/ a[1] = b[1] /\ a[2] < b[2]
    \/ a[1] = b[1] /\ a[2] = b[2] /\ a[3] < b[3]

----------------------------------------------------------------------------
(* Ledger: macro_db.get_config                                             *)

get_config(key) == config[key]

----------------------------------------------------------------------------
(* Day-boundary resolver: day_utils.py                                     *)

DefaultStartHour == 6

\* mutant: the hour of DAY_START_TIME is taken without the range check
get_day_start_hour_unchecked ==
    LET env_time == env["DAY_START_TIME"]
        hour_str == get_config("day_start_hour")
        hour == ParseInt(hour_str)
    IN  IF env_time # None /\ Len(env_time) = 4 /\ isdigit(env_time)
        THEN ParseInt(SubSeq(env_time, 1, 2)).val
        ELSE IF hour_str = None THEN DefaultStartHour
        ELSE IF hour.ok /\ 0 <= hour.val /\ hour.val <= 23 THEN hour.val
        ELSE DefaultStartHour

get_day_start_hour ==
    LET env_time == env["DAY_START_TIME"]
        env_hour == IF Len(env_time) = 4 /\ isdigit(env_time)
                    THEN ParseInt(SubSeq(env_time, 1, 2))
                    ELSE Fail
        hour_str == get_config("day_start_hour")
        hour == ParseInt(hour_str)
    IN  IF env_time # None /\ env_time # <<>>
           /\ env_hour.ok /\ 0 <= env_hour.val /\ env_hour.val <= 23
        THEN env_hour.val
        ELSE IF hour_str = None THEN DefaultStartHour
        ELSE IF hour.ok /\ 0 <= hour.val /\ hour.val <= 23 THEN hour.val
        ELSE DefaultStartHour

\* mutant: the day changes one hour late (<= for <)
get_current_day_timestamp_late ==
    LET start_hour == get_day_start_hour
    IN  IF now.hh <= start_hour
        THEN strftime(AddSeconds(now, 0 - 86400))
        ELSE strftime(now)

get_current_day_timestamp ==
    LET start_hour == get_day_start_hour
    IN  IF now.hh < start_hour
        THEN strftime(AddSeconds(now, 0 - 86400))
        ELSE strftime(now)

\* mutant: the range ends at the start of the next day
get_datetime_range_for_day_closed(day) ==
    LET start_hour == get_day_start_hour
        day_date == strptime(day)
        start_dt == [day_date.val EXCEPT !.hh = start_hour, !.mi = 0, !.ss = 0]
        end_dt == AddSeconds(start_dt, 86400)
    IN  IF day_date.ok THEN Ok(<<start_dt, end_dt>>) ELSE Fail

\* (start_dt, end_dt) as <<start, end>>; ok = FALSE when strptime raises
get_datetime_range_for_day(day) ==
    LET start_hour == get_day_start_hour
        day_date == strptime(day)
        start_dt == [day_date.val EXCEPT !.hh = start_hour, !.mi = 0, !.ss = 0]
        end_dt == AddSeconds(AddSeconds(start_dt, 86400), 0 - 1)
    IN  IF day_date.ok THEN Ok(<<start_dt, end_dt>>) ELSE Fail

\* mutant: the start of the range is excluded
is_datetime_in_day_open(dt, day) ==
    LET r == get_datetime_range_for_day(day)
    IN  IF ~r.ok THEN Fail
        ELSE Ok(~DtLeq(dt, r.val[1]) /\ DtLeq(dt, r.val[2]))

is_datetime_in_day(dt, day) ==
    LET r == get_datetime_range_for_day(day)
    IN  IF ~r.ok THEN Fail
        ELSE Ok(DtLeq(r.val[1], dt) /\ DtLeq(dt, r.val[2]))

----------------------------------------------------------------------------
(* The process environment and the seeded ledger                           *)

EnvNames ==
    {"DAY_START_TIME", "MACRO_GOAL_CALORIES", "MACRO_GOAL_CARBS",
     "MACRO_GOAL_FATS", "MACRO_GOAL_PROTEIN"}

ConfigKeys ==
    {"day_start_hour", "goal_calories", "goal_carbs", "goal_fats",
     "goal_protein"}

EnvUnset == [n \in EnvNames |-> None]

\* the rows init_schema inserts
SeededConfig ==
    [k \in ConfigKeys |->
        CASE k = "day_start_hour" -> <<"6">>
          [] k = "goal_calories" -> <<"3", "5", "0", "0">>
          [] k = "goal_carbs" -> <<"3", "5", "0">>
          [] k = "goal_fats" -> <<"1", "0", "0">>
          [] k = "goal_protein" -> <<"2", "5", "0">>]

\* str(n) for 0 <= n <= 99
IntStr(n) ==
    IF n < 10 THEN <<DigitChars[n + 1]>>
    ELSE <<DigitChars[(n \div 10) + 1], DigitChars[(n % 10) + 1]>>

----------------------------------------------------------------------------
(* Specification SpecDay: the day-boundary resolver applied to sampled     *)
(* clocks, start-hour settings and day arguments.  The resolver's          *)
(* operations change no state, so each behaviour makes one call on the     *)
(* inputs drawn by InitDay.                                                *)

SampleDates == {<<2024, 3, 1>>, <<2025, 1, 1>>, <<2025, 1, 15>>}

SampleClocks ==
    {DateTime(dd[1], dd[2], dd[3], hh, ms[1], ms[2]) :
        dd \in SampleDates, hh \in 0..23,
        ms \in {<<0, 0>>, <<30, 0>>, <<59, 59>>}}

\* <<DAY_START_TIME, stored day_start_hour>>
StartHourSettings ==
    ({None} \X ({IntStr(h) : h \in 0..23}
                \cup {None, <<"2", "4">>, <<"a", "b", "c">>, <<" ", "7">>,
                      <<"-", "1">>}))
    \cup ({<<"0", "6", "0", "0">>, <<"2", "3", "5", "9">>,
           <<"0", "0", "0", "0">>, <<"2", "4", "0", "0">>,
           <<"6", "0", "0">>, <<>>}
          \X {None, <<"9">>, <<"x">>})

\* day arguments: the sampled dates and one string that is no date
DayArgs == SampleDates \cup {<<2025, 2, 30>>}

\* datetimes probed against a day: its range's ends, their neighbours, now
ProbeTimes(day) ==
    LET r == get_datetime_range_for_day(day)
    IN  {now} \cup (IF r.ok
                    THEN {r.val[1], r.val[2], AddSeconds(r.val[1], 0 - 1),
                          AddSeconds(r.val[2], 1)}
                    ELSE {})

InitDay ==
    /\ stock = InitialStock
    /\ now \in SampleClocks
    /\ \E st \in StartHourSettings :
          /\ env = [EnvUnset EXCEPT !["DAY_START_TIME"] = st[1]]
          /\ config = [SeededConfig EXCEPT !["day_start_hour"] = st[2]]
    /\ temp_items = <<>>
    /\ next_id = 1
    /\ meal_plan = <<>>
    /\ ret = [op |-> "none"]

CallGetDayStartHour ==
    /\ ret.op = "none"
    /\ ret' = [op |-> "get_day_start_hour", value |-> get_day_start_hour]
    /\ UNCHANGED <<stock, now, env, config, temp_items, next_id, meal_plan>>

CallGetCurrentDayTimestamp ==
    /\ ret.op = "none"
    /\ ret' = [op |-> "get_current_day_timestamp", at |-> now,
               value |-> get_current_day_timestamp]
    /\ UNCHANGED <<stock, now, env, config, temp_items, next_id, meal_plan>>

CallGetDatetimeRangeForDay(day) ==
    /\ ret.op = "none"
    /\ LET r == get_datetime_range_for_day(day)
       IN  ret' = [op |-> "get_datetime_range_for_day", day |-> day,
                   raised |-> ~r.ok, value |-> r.val]
    /\ UNCHANGED <<stock, now, env, config, temp_items, next_id, meal_plan>>

CallIsDatetimeInDay(dt, day) ==
    /\ ret.op = "none"
    /\ LET r == is_datetime_in_day(dt, day)
       IN  ret' = [op |-> "is_datetime_in_day", dt |-> dt, day |-> day,
                   raised |-> ~r.ok, value |-> r.val]
    /\ UNCHANGED <<stock, now, env, config, temp_items, next_id, meal_plan>>

NextDay ==
    \/ CallGetDayStartHour
    \/ CallGetCurrentDayTimestamp
    \/ \E day \in DayArgs : CallGetDatetimeRangeForDay(day)
    \/ \E day \in DayArgs : \E dt \in ProbeTimes(day) :
          CallIsDatetimeInDay(dt, day)

SpecDay == InitDay /\ [][NextDay]_vars

----------------------------------------------------------------------------
(* Claims about the day-boundary resolver                                  *)

\* the calendar date before a date, by the calendar's rules
PrevDate(date) ==
    LET y == date[1]
        m == date[2]
        d == date[3]
    IN  IF d > 1 THEN <<y, m, d - 1>>
        ELSE IF m > 1 THEN <<y, m - 1, DaysInMonth(y, m - 1)>>
        ELSE <<y - 1, 12, 31>>

\* C1: with start hour H, get_current_day_timestamp() at wall-clock time t
\* returns the calendar date of t minus one day when hour(t) < H and the
\* calendar date of t when hour(t) >= H.
C1_DayBoundary ==
    ret.op = "get_current_day_timestamp" =>
        LET H == get_day_start_hour
            t == ret.at
        IN  /\ H \in 0..23
            /\ t.hh < H => ret.value = PrevDate(<<t.y, t.m, t.d>>)
            /\ t.hh >= H => ret.value = <<t.y, t.m, t.d>>

\* C1 witness: 2025-01-15 05:30 with H = 6 has been answered 2025-01-14
C1_Witness ==
    /\ ret.op = "get_current_day_timestamp"
    /\ get_day_start_hour = 6
    /\ ret.at = DateTime(2025, 1, 15, 5, 30, 0)
    /\ ret.value = <<2025, 1, 14>>

\* C2: for a valid day, with (start, end) = get_datetime_range_for_day(day):
\* end = start + 24h - 1s, start and end are in the day, start - 1s is not.
C2_RangeRoundTrip ==
    /\ ret.op = "get_datetime_range_for_day" /\ strptime(ret.day).ok =>
          /\ ~ret.raised
          /\ strftime(ret.value[1]) = ret.day
          /\ ret.value[1].hh = get_day_start_hour
          /\ DiffSeconds(ret.value[2], ret.value[1]) = 86400 - 1
    /\ ret.op = "is_datetime_in_day" /\ strptime(ret.day).ok =>
          LET r == get_datetime_range_for_day(ret.day).val
          IN  /\ ~ret.raised
              /\ ret.dt = r[1] => ret.value = TRUE
              /\ ret.dt = r[2] => ret.value = TRUE
              /\ ret.dt = AddSeconds(r[1], 0 - 1) => ret.value = FALSE

\* C2 witness: the second before a day's start has been tested and rejected
C2_Witness ==
    /\ ret.op = "is_datetime_in_day"
    /\ ret.day = <<2025, 1, 1>>
    /\ get_day_start_hour = 0
    /\ ret.dt = DateTime(2024, 12, 31, 23, 59, 59)
    /\ ret.value = FALSE


\* the hour DAY_START_TIME names: exactly 4 digits, the first two 00..23
EnvHour ==
    LET t == env["DAY_START_TIME"]
    IN  IF /\ t # None /\ Len(t) = 4
           /\ \A i \in 1..4 : t[i] \in {DigitChars[k] : k \in 1..10}
           /\ 10 * DigitVal(t[1]) + DigitVal(t[2]) <= 23
        THEN Ok(10 * DigitVal(t[1]) + DigitVal(t[2]))
        ELSE Fail

\* the hour the stored day_start_hour names: an integer in 0..23
StoredHour ==
    LET h == ParseInt(config["day_start_hour"])
    IN  IF h.ok /\ h.val \in 0..23 THEN h ELSE Fail

\* C12: get_day_start_hour returns an integer in 0..23: the hour of
\* DAY_START_TIME when it is 4 digits starting with 00..23, otherwise the
\* stored day_start_hour when it parses to an integer in 0..23, otherwise 6.
C12_StartHourTiers ==
    ret.op = "get_day_start_hour" =>
        /\ ret.value \in 0..23
        /\ ret.value = IF EnvHour.ok THEN EnvHour.val
                       ELSE IF StoredHour.ok THEN StoredHour.val
                       ELSE 6

\* C12 witness: DAY_START_TIME=2400 is out of range and the stored 9 decides
C12_Witness ==
    /\ ret.op = "get_day_start_hour"
    /\ env["DAY_START_TIME"] = <<"2", "4", "0", "0">>
    /\ config["day_start_hour"] = <<"9">>
    /\ ret.value = 9

----------------------------------------------------------------------------
(* The backend as the engine sees it.  An optional JSON field is <<>>      *)
(* (key absent) or <<v>>; a userfield value is a str or None.              *)

Absent == <<>>

Present(v) == <<v>>

\* bool(entry.get(k)) for an optional numeric field
Truthy(f) == f # Absent /\ f[1] # 0

MacroKeys ==
    {"recipe_calories", "recipe_carbs", "recipe_fats", "recipe_proteins",
     "Calories_Per_Serving", "Carbs", "Fats", "Protein"}

NoUserfields == [k \in MacroKeys |-> None]

\* GET /objects/recipes/{id}: recipe 9 answers 404
get_recipe(recipe_id) == IF recipe_id \in {7, 8} THEN Ok(recipe_id) ELSE Fail

\* GET /objects/products/{id}
get_product(product_id) ==
    IF product_id \in {3, 4, 5} THEN Ok(product_id) ELSE Fail

\* the userfields the backend holds for each recipe
RecipeUserfieldData(recipe_id) ==
    CASE recipe_id = 7 ->
            [NoUserfields EXCEPT !["recipe_calories"] = <<"3", "0", "0">>,
                                 !["recipe_carbs"] = <<"4", "0">>,
                                 !["recipe_fats"] = <<"1", "0">>,
                                 !["recipe_proteins"] = <<"2", "0">>]
      [] recipe_id = 8 ->
            [NoUserfields EXCEPT !["recipe_calories"] = <<"3", "3", "3">>,
                                 !["recipe_carbs"] = <<"1", "2", ".", "2", "5">>,
                                 !["recipe_fats"] = <<"a", "b", "c">>]
      [] recipe_id = 9 ->
            [NoUserfields EXCEPT !["recipe_calories"] = <<"1", "0", "0">>,
                                 !["recipe_carbs"] = <<"5">>]
      [] OTHER -> NoUserfields

\* _get_recipe_userfields: both endpoints tried, {} when neither answers
get_recipe_userfields(recipe_id) == RecipeUserfieldData(recipe_id)

\* UserfieldService.get_product_userfields: product 3 has no userfields,
\* both endpoints fail for product 5
get_product_userfields(product_id) ==
    CASE product_id = 3 -> Ok(NoUserfields)
      [] product_id = 4 ->
            Ok([NoUserfields EXCEPT
                   !["Calories_Per_Serving"] = <<"2", "5", "0">>,
                   !["Carbs"] = <<"3", "0", ".", "2", "5">>,
                   !["Fats"] = <<"8">>,
                   !["Protein"] = <<"1", "2">>])
      [] OTHER -> Fail

----------------------------------------------------------------------------
(* Macro aggregation engine: macro_aggregator.py                           *)

\* the parsed value, or the default when float() raised
OrDefault(parsed, default) == IF parsed.ok THEN parsed.val ELSE default

\* mutant: a missing value counts as 1.0 instead of the default
get_float_one(data, key, default) ==
    IF data[key] = None THEN 1000
    ELSE OrDefault(ParseFloat(data[key]), default)

\* _get_float(data, key, default), in thousandths
get_float(data, key, default) ==
    IF data[key] = None THEN default
    ELSE OrDefault(ParseFloat(data[key]), default)

Macros(calories, carbs, fats, protein) ==
    [calories |-> calories, carbs |-> carbs, fats |-> fats, protein |-> protein]

\* the four _get_float(userfields, key, 0) of a recipe
RecipeMacros(userfields) ==
    Macros(get_float(userfields, "recipe_calories", 0),
           get_float(userfields, "recipe_carbs", 0),
           get_float(userfields, "recipe_fats", 0),
           get_float(userfields, "recipe_proteins", 0))

\* the four _get_float(userfields, key, 0) of a product
ProductMacros(userfields) ==
    Macros(get_float(userfields, "Calories_Per_Serving", 0),
           get_float(userfields, "Carbs", 0),
           get_float(userfields, "Fats", 0),
           get_float(userfields, "Protein", 0))

\* the per-serving macros of the recipes, by recipe id
RecipeFloats == [rid \in {7, 8, 9} |-> RecipeMacros(get_recipe_userfields(rid))]

\* the per-serving macros of the products whose userfields can be read, by
\* product id
ProductFloats ==
    [pid \in {3, 4} |-> ProductMacros(get_product_userfields(pid).val)]

\* x * y for two floats in thousandths, y >= 0
Mul(x, y) == (x \div 1000) * y + ((x % 1000) * y) \div 1000

\* float(entry.get(key, 1.0))
Multiplier(field) == IF field = Absent THEN 1000 ELSE field[1]

\* mutant: only the field done is probed
IsDone_done_only(entry) == Truthy(entry.done)

\* mutant: an entry without a done field counts as done
IsDone_default(entry) ==
    entry.done = Absent \/ Truthy(entry.done) \/ Truthy(entry.is_done)
    \/ Truthy(entry.completed)

\* entry.get("done") or entry.get("is_done") or entry.get("completed")
IsDone(entry) ==
    Truthy(entry.done) \/ Truthy(entry.is_done) \/ Truthy(entry.completed)

\* int(calories * n), float(carbs * n), float(fats * n), float(protein * n)
Scaled(per_serving, n) ==
    Macros(TruncInt(Mul(per_serving.calories, n)), Mul(per_serving.carbs, n),
           Mul(per_serving.fats, n), Mul(per_serving.protein, n))

ConsumedEntry(type, id, servings, macros) ==
    [type |-> type, id |-> id, servings |-> servings,
     calories |-> macros.calories, carbs |-> macros.carbs,
     fats |-> macros.fats, protein |-> macros.protein]

\* the recipe branch: nothing is appended when get_recipe raises
ConsumedRecipe(rid, servings) ==
    IF ~get_recipe(rid).ok THEN <<>>
    ELSE <<ConsumedEntry("recipe", rid, Present(servings),
                         Scaled(RecipeFloats[rid], servings))>>

\* the product branch: nothing is appended when a lookup raises
ConsumedProduct(pid, amount) ==
    IF ~get_product(pid).ok \/ ~get_product_userfields(pid).ok THEN <<>>
    ELSE <<ConsumedEntry("product", pid, Present(amount),
                         Scaled(ProductFloats[pid], amount))>>

\* the body of the loop of get_grocy_consumed_for_day for one done entry of
\* the day: the list of entries (none or one) it appends
ConsumedOf(entry) ==
    IF Truthy(entry.recipe_id)
    THEN ConsumedRecipe(entry.recipe_id[1], Multiplier(entry.servings))
    ELSE IF Truthy(entry.product_id)
    THEN ConsumedProduct(entry.product_id[1], Multiplier(entry.amount))
    ELSE <<>>

RECURSIVE ConsumedLoop(_, _)
ConsumedLoop(entries, day) ==
    IF entries = <<>> THEN <<>>
    ELSE LET entry == Head(entries)
         IN  (IF entry.day = day /\ IsDone(entry) THEN ConsumedOf(entry) ELSE <<>>)
             \o ConsumedLoop(Tail(entries), day)

\* all_entries is what client.list_meal_plan() returned
get_grocy_consumed_for_day(all_entries, day) == ConsumedLoop(all_entries, day)

\* mutant: the rows of every day are selected
get_temp_items_for_day_any(rows, day) == rows

\* macro_db.get_temp_items_for_day: the rows of the day among the rows of
\* grocy_temp_items, in created_at order
get_temp_items_for_day(rows, day) == SelectSeq(rows, LAMBDA r : r.day = day)

\* one item of the result of get_temp_consumed_for_day
TempEntry(item) ==
    ConsumedEntry("temp", item.id, Absent,
                  Macros(TruncInt(item.calories), item.carbs, item.fats,
                         item.protein))

\* result.append({...}) for every item
TempEntries(items) == [i \in 1..Len(items) |-> TempEntry(items[i])]

get_temp_consumed_for_day(rows, day) ==
    TempEntries(get_temp_items_for_day(rows, day))

\* the product branch of get_grocy_planned_for_day
PlannedProduct(pid, amount) ==
    IF ~get_product_userfields(pid).ok THEN Macros(0, 0, 0, 0)
    ELSE Scaled(ProductFloats[pid], amount)

\* what one entry of the day adds to the accumulators total_cals, total_carbs,
\* total_fats, total_protein of get_grocy_planned_for_day
PlannedOf(entry) ==
    IF Truthy(entry.recipe_id)
    THEN Scaled(RecipeFloats[entry.recipe_id[1]], Multiplier(entry.servings))
    ELSE IF Truthy(entry.product_id)
    THEN PlannedProduct(entry.product_id[1], Multiplier(entry.amount))
    ELSE Macros(0, 0, 0, 0)

AddMacros(a, b) ==
    Macros(a.calories + b.calories, a.carbs + b.carbs, a.fats + b.fats,
           a.protein + b.protein)

\* mutant: planned is what is left to eat
PlannedCounts_remaining(entry, day) == entry.day = day /\ ~IsDone(entry)

\* every entry of the day counts
PlannedCounts(entry, day) == entry.day = day

\* the accumulators of get_grocy_planned_for_day after its loop
RECURSIVE PlannedLoop(_, _)
PlannedLoop(entries, day) ==
    IF entries = <<>> THEN Macros(0, 0, 0, 0)
    ELSE LET entry == Head(entries)
         IN  AddMacros(IF PlannedCounts(entry, day) THEN PlannedOf(entry)
                       ELSE Macros(0, 0, 0, 0),
                       PlannedLoop(Tail(entries), day))

\* the dict returned from the accumulators
PlannedTotals(total) ==
    Macros(total.calories, Round2(total.carbs), Round2(total.fats),
           Round2(total.protein))

get_grocy_planned_for_day(all_entries, day) ==
    PlannedTotals(PlannedLoop(all_entries, day))

\* mutant: the stored config value wins over the environment
FirstTruthy_stored_first(name, key, default) ==
    IF get_config(key) # None /\ get_config(key) # <<>> THEN get_config(key)
    ELSE IF env[name] # None /\ env[name] # <<>> THEN env[name]
    ELSE default

\* os.getenv(name) or macro_db.get_config(key) or default
FirstTruthy(name, key, default) ==
    IF env[name] # None /\ env[name] # <<>> THEN env[name]
    ELSE IF get_config(key) # None /\ get_config(key) # <<>> THEN get_config(key)
    ELSE default

\* the dict returned from the four conversions; raised = TRUE when int() or
\* float() raised ValueError
GoalOf(goal_cals, goal_carbs, goal_fats, goal_protein) ==
    IF goal_cals.ok /\ goal_carbs.ok /\ goal_fats.ok /\ goal_protein.ok
    THEN [raised |-> FALSE,
          value |-> Macros(goal_cals.val, Round2(goal_carbs.val),
                           Round2(goal_fats.val), Round2(goal_protein.val))]
    ELSE [raised |-> TRUE, value |-> Macros(0, 0, 0, 0)]

get_goal_macros ==
    GoalOf(ParseInt(FirstTruthy("MACRO_GOAL_CALORIES", "goal_calories",
                                <<"3", "5", "0", "0">>)),
           ParseFloat(FirstTruthy("MACRO_GOAL_CARBS", "goal_carbs",
                                  <<"3", "5", "0">>)),
           ParseFloat(FirstTruthy("MACRO_GOAL_FATS", "goal_fats",
                                  <<"1", "0", "0">>)),
           ParseFloat(FirstTruthy("MACRO_GOAL_PROTEIN", "goal_protein",
                                  <<"2", "5", "0">>)))

\* sum(e.get(key, 0) for e in entries)
RECURSIVE SumOf(_, _)
SumOf(entries, key) ==
    IF entries = <<>> THEN 0 ELSE Head(entries)[key] + SumOf(Tail(entries), key)

\* mutant: the temp items are listed but not added to the calories
ConsumedTotals_notemp(all_entries) ==
    [calories |-> SumOf(SelectSeq(all_entries, LAMBDA e : e.type # "temp"),
                        "calories"),
     carbs |-> Round2(SumOf(all_entries, "carbs")),
     fats |-> Round2(SumOf(all_entries, "fats")),
     protein |-> Round2(SumOf(all_entries, "protein")),
     entries |-> all_entries]

\* the consumed block of get_day_summary for the list all_entries
ConsumedTotals(all_entries) ==
    [calories |-> SumOf(all_entries, "calories"),
     carbs |-> Round2(SumOf(all_entries, "carbs")),
     fats |-> Round2(SumOf(all_entries, "fats")),
     protein |-> Round2(SumOf(all_entries, "protein")),
     entries |-> all_entries]

\* get_day_summary over a meal plan, the rows of grocy_temp_items and the
\* outcome of get_goal_macros
DaySummary(plan, rows, goal, day) ==
    [raised |-> goal.raised,
     day |-> day,
     consumed |-> ConsumedTotals(get_grocy_consumed_for_day(plan, day)
                                 \o get_temp_consumed_for_day(rows, day)),
     planned |-> get_grocy_planned_for_day(plan, day),
     goal |-> goal.value]

get_day_summary(day) == DaySummary(meal_plan, temp_items, get_goal_macros, day)

----------------------------------------------------------------------------
(* Specification Spec: the aggregation engine over a meal plan and a       *)
(* ledger that grow and change                                             *)

MaxPlan == 2

MaxTemp == 1

D1 == <<2025, 3, 1>>

D2 == <<2025, 2, 28>>

PlanDays == {D1, D2}

PlanEntry(day, done, recipe_id, product_id, servings, amount) ==
    [day |-> day, done |-> done, is_done |-> Absent, completed |-> Absent,
     recipe_id |-> recipe_id, product_id |-> product_id,
     servings |-> servings, amount |-> amount]

\* the meal-plan entries that get created (not done, or done at once):
\* recipes and products of two days, with and without a multiplier, with
\* full, partial, missing and unreachable userfields
NewPlanEntries ==
    {PlanEntry(D1, Present(0), Present(7), Absent, Present(2000), Absent),
     PlanEntry(D1, Absent, Present(8), Absent, Present(500), Absent),
     PlanEntry(D1, Present(0), Present(9), Absent, Absent, Absent),
     PlanEntry(D1, Present(1), Absent, Present(3), Absent, Present(1000)),
     PlanEntry(D1, Present(0), Absent, Present(4), Absent, Absent),
     PlanEntry(D1, Absent, Absent, Present(5), Absent, Present(1000)),
     PlanEntry(D2, Present(1), Present(7), Absent, Present(2000), Absent)}

TempItem(name, calories, carbs, fats, protein, day) ==
    [name |-> name, calories |-> calories, carbs |-> carbs, fats |-> fats,
     protein |-> protein, day |-> day]

\* the items that get logged: the spec's example and a fractional one
NewTempItems ==
    {TempItem("shake", 150000, 15000, 5000, 5000, D1),
     TempItem("bite", 150700, 2125, 0, 1005, D1)}

Init ==
    /\ stock = InitialStock
    /\ now = DateTime(2025, 3, 1, 12, 0, 0)
    /\ env = EnvUnset
    /\ config = SeededConfig
    /\ temp_items = <<>>
    /\ next_id = 1
    /\ meal_plan = <<>>
    /\ ret = [op |-> "none"]

\* MealPlanService.create_meal_plan_entry: the backend appends the entry
CreateMealPlanEntry(entry) ==
    /\ Len(meal_plan) < MaxPlan
    /\ meal_plan' = Append(meal_plan, entry)
    /\ ret' = [op |-> "none"]
    /\ UNCHANGED <<stock, now, env, config, temp_items, next_id>>

\* MealPlanService.update_meal_plan_entry(entry_id, {"done": value})
UpdateMealPlanEntry(i, value) ==
    /\ i \in 1..Len(meal_plan)
    /\ meal_plan' = [meal_plan EXCEPT ![i].done = Present(value)]
    /\ ret' = [op |-> "none"]
    /\ UNCHANGED <<stock, now, env, config, temp_items, next_id>>

\* macro_db.create_temp_item: INSERT ... RETURNING id
CreateTempItem(item) ==
    /\ Len(temp_items) < MaxTemp
    /\ temp_items' = Append(temp_items,
                            [id |-> next_id, name |-> item.name,
                             calories |-> item.calories, carbs |-> item.carbs,
                             fats |-> item.fats, protein |-> item.protein,
                             day |-> item.day])
    /\ next_id' = next_id + 1
    /\ ret' = [op |-> "create_temp_item", value |-> next_id]
    /\ UNCHANGED <<stock, now, env, config, meal_plan>>

CallGetDaySummary(day) ==
    /\ ret' = [op |-> "get_day_summary", value |-> get_day_summary(day)]
    /\ UNCHANGED <<stock, now, env, config, temp_items, next_id, meal_plan>>

Next ==
    \/ \E entry \in NewPlanEntries : CreateMealPlanEntry(entry)
    \/ \E i \in 1..MaxPlan + 1, value \in {0, 1} : UpdateMealPlanEntry(i, value)
    \/ \E item \in NewTempItems : CreateTempItem(item)
    \/ \E day \in PlanDays : CallGetDaySummary(day)

Spec == Init /\ [][Next]_vars

----------------------------------------------------------------------------
(* Claims about get_day_summary                                            *)

\* the sum of f over a finite set of indices
RECURSIVE SumOver(_, _)
SumOver(S, f) ==
    IF S = {} THEN 0
    ELSE LET i == CHOOSE j \in S : TRUE IN f[i] + SumOver(S \ {i}, f)

\* C3: in every DaySummary returned, consumed.calories is exactly the sum of
\* the calories of the items of consumed.entries.
C3_Additivity ==
    ret.op = "get_day_summary" =>
        LET c == ret.value.consumed
            cal == [i \in DOMAIN c.entries |-> c.entries[i].calories]
        IN  c.calories = SumOver(DOMAIN c.entries, cal)

\* C3 witness: a summary over a recipe, a product and a temp entry
C3_Witness ==
    /\ ret.op = "get_day_summary"
    /\ {e.type : e \in {ret.value.consumed.entries[i] :
                           i \in DOMAIN ret.value.consumed.entries}}
       = {"recipe", "product", "temp"}
    /\ ret.value.consumed.calories = 600 + 250 + 150

\* per-serving macros times a multiplier, nothing truncated
ExactScaled(per_serving, n) ==
    Macros(Mul(per_serving.calories, n), Mul(per_serving.carbs, n),
           Mul(per_serving.fats, n), Mul(per_serving.protein, n))

\* the exact macros of a meal-plan entry: per-serving userfield value times
\* its multiplier (1.0 when absent), nothing when there are no userfields
ExactOf(entry) ==
    IF Truthy(entry.recipe_id)
    THEN ExactScaled(RecipeMacros(get_recipe_userfields(entry.recipe_id[1])),
                     Multiplier(entry.servings))
    ELSE IF Truthy(entry.product_id) /\ get_product_userfields(entry.product_id[1]).ok
    THEN ExactScaled(ProductMacros(get_product_userfields(entry.product_id[1]).val),
                     Multiplier(entry.amount))
    ELSE Macros(0, 0, 0, 0)

\* the exact consumed macros of a day: its done entries plus its temp items
ExactConsumed(day, key) ==
    LET plan == [i \in DOMAIN meal_plan |->
                    IF meal_plan[i].day = day /\ IsDone(meal_plan[i])
                    THEN ExactOf(meal_plan[i])[key] ELSE 0]
        temp == [i \in DOMAIN temp_items |->
                    IF temp_items[i].day = day THEN temp_items[i][key] ELSE 0]
    IN  SumOver(DOMAIN meal_plan, plan) + SumOver(DOMAIN temp_items, temp)

\* a float in thousandths rounded to the nearest whole number (ties to even)
RoundInt(x) ==
    LET q == x \div 1000
        r == x % 1000
    IN  IF r < 500 THEN q
        ELSE IF r > 500 THEN q + 1
        ELSE IF q % 2 = 0 THEN q ELSE q + 1

\* C4: the consumed totals of get_day_summary(D) equal, per macro, the sum
\* over the done entries of D of userfield value x multiplier plus the
\* macros of the temp items of D taken verbatim (calories as the nearest
\* integer, the others at 2 decimals).
C4_ConsumedTotals ==
    ret.op = "get_day_summary" =>
        LET c == ret.value.consumed
            D == ret.value.day
        IN  /\ c.calories = RoundInt(ExactConsumed(D, "calories"))
            /\ c.carbs = Round2(ExactConsumed(D, "carbs"))
            /\ c.fats = Round2(ExactConsumed(D, "fats"))
            /\ c.protein = Round2(ExactConsumed(D, "protein"))

\* C4, the spec's example: one done recipe entry (recipe 7, servings 2,
\* userfields 300/40/10/20) and one temp item 150/15/5/5 are answered
\* 750/95.0/25.0/45.0 with two entries.
C4_Example ==
    /\ meal_plan = <<PlanEntry(D1, Present(1), Present(7), Absent,
                               Present(2000), Absent)>>
    /\ Len(temp_items) = 1 /\ temp_items[1].name = "shake"
    /\ ret.op = "get_day_summary" /\ ret.value.day = D1
    /\ ret.value.consumed.calories = 750
    /\ ret.value.consumed.carbs = 95000
    /\ ret.value.consumed.fats = 25000
    /\ ret.value.consumed.protein = 45000
    /\ Len(ret.value.consumed.entries) = 2

\* the four totals of a block of a summary
Totals(block) == <<block.calories, block.carbs, block.fats, block.protein>>

\* get_day_summary(day) called after the step (Spec leaves env and config,
\* which decide the goal, unchanged)
SummaryAfter(day) == DaySummary(meal_plan', temp_items', get_goal_macros, day)

\* the entry's done flag is false or absent
NotDone(entry) ==
    /\ entry.done \in {Absent, Present(0)}
    /\ entry.is_done = Absent /\ entry.completed = Absent

\* a step that creates the meal-plan entry
Creates(entry) ==
    /\ Len(meal_plan') = Len(meal_plan) + 1
    /\ meal_plan' = Append(meal_plan, entry)

\* a step that changes the done flag of one entry and nothing else
ChangesDone ==
    /\ meal_plan' # meal_plan
    /\ Len(meal_plan') = Len(meal_plan)
    /\ \E i \in DOMAIN meal_plan :
          /\ meal_plan'[i].done # meal_plan[i].done
          /\ meal_plan' = [meal_plan EXCEPT ![i].done = meal_plan'[i].done]

\* C5: adding to day D a meal-plan entry that is not done adds that entry's
\* macros to the planned totals of D (the accumulated sums, reported at 2
\* decimals) and leaves the consumed totals and entries of every day
\* unchanged.
C5_NotDoneFrame ==
    [][\A entry \in NewPlanEntries :
          Creates(entry) /\ NotDone(entry) =>
             \A D \in PlanDays :
                /\ SummaryAfter(D).consumed = get_day_summary(D).consumed
                /\ PlannedLoop(meal_plan', D)
                   = AddMacros(PlannedLoop(meal_plan, D),
                               IF entry.day = D THEN PlannedOf(entry)
                               ELSE Macros(0, 0, 0, 0))
                /\ LET total == PlannedLoop(meal_plan', D)
                   IN  Totals(SummaryAfter(D).planned)
                       = <<total.calories, Round2(total.carbs),
                           Round2(total.fats), Round2(total.protein)>>]_vars

\* C5 witness: a not-done entry with macros stands beside consumed ones
C5_Witness ==
    /\ ret.op = "get_day_summary" /\ ret.value.day = D1
    /\ Len(meal_plan) = 2
    /\ meal_plan[1].done = Present(1) /\ NotDone(meal_plan[2])
    /\ meal_plan[2].day = D1 /\ PlannedOf(meal_plan[2]).calories > 0
    /\ ret.value.consumed.calories > 0
    /\ ret.value.planned.calories > ret.value.consumed.calories

\* C6: changing the done flag of any entry leaves the planned totals of
\* every day unchanged.
C6_PlannedIgnoresDone ==
    [][ChangesDone =>
          \A D \in PlanDays :
             SummaryAfter(D).planned = get_day_summary(D).planned]_vars

\* C6 witness: recipe 7 of D1 is created not done; here it has been marked
\* done and is planned and consumed
C6_Witness ==
    /\ ret.op = "get_day_summary" /\ ret.value.day = D1
    /\ \E i \in DOMAIN meal_plan :
          /\ meal_plan[i].day = D1 /\ meal_plan[i].recipe_id = Present(7)
          /\ meal_plan[i].done = Present(1)
    /\ ret.value.planned.calories >= 600
    /\ ret.value.consumed.calories >= 600

\* the product has no nutrition userfields present
NoNutrition(product_id) ==
    LET r == get_product_userfields(product_id)
    IN  ~r.ok \/ \A k \in {"Calories_Per_Serving", "Carbs", "Fats", "Protein"} :
                    r.val[k] = None

\* C7: injecting one meal-plan entry (done or not) whose product has no
\* nutrition userfields does not raise and changes none of the consumed and
\* none of the planned totals of any day.
C7_MissingDataSkip ==
    [][\A entry \in NewPlanEntries :
          /\ Creates(entry)
          /\ entry.recipe_id = Absent /\ entry.product_id # Absent
          /\ NoNutrition(entry.product_id[1])
          => \A D \in PlanDays :
                /\ ~SummaryAfter(D).raised
                /\ Totals(SummaryAfter(D).consumed)
                   = Totals(get_day_summary(D).consumed)
                /\ Totals(SummaryAfter(D).planned)
                   = Totals(get_day_summary(D).planned)]_vars

\* C7 witness: a done entry of product 3 is listed with zero macros beside
\* an entry that has macros
C7_Witness ==
    /\ ret.op = "get_day_summary" /\ ~ret.value.raised
    /\ ret.value.consumed.calories > 0
    /\ \E i \in DOMAIN ret.value.consumed.entries :
          LET e == ret.value.consumed.entries[i]
          IN  e.type = "product" /\ e.id = 3 /\ e.calories = 0 /\ e.carbs = 0

----------------------------------------------------------------------------
(* Recent active days: macro_aggregator.get_recent_days_with_activity and  *)
(* integrations/macros.get_recent_days                                     *)

\* execute_query("SELECT DISTINCT day FROM <table> ..."): the schema of
\* init_schema has the relations grocy_temp_items and grocy_config, and only
\* the first has a day column; on any other relation the query raises
SelectDistinctDay(table) ==
    IF table = "grocy_temp_items"
    THEN Ok({temp_items[i].day : i \in DOMAIN temp_items})
    ELSE Fail

\* sorted(list(days_set), reverse=True)
RECURSIVE SortedReverse(_)
SortedReverse(S) ==
    IF S = {} THEN <<>>
    ELSE LET m == CHOOSE x \in S : \A y \in S : ~DayLess(x, y)
         IN  <<m>> \o SortedReverse(S \ {m})

\* lst[start:end] for 0 <= start <= end
Slice(lst, start, end) ==
    IF start >= Len(lst) THEN <<>>
    ELSE SubSeq(lst, start + 1, IF end < Len(lst) THEN end ELSE Len(lst))

\* the values of days that are not empty
DaysOf(days) == {d \in days : d # None /\ d # <<>>}

\* the days of the rows, none when the query raised
TempDays(rows) == IF rows.ok THEN DaysOf(rows.val) ELSE {}

\* days_list[:limit] when a limit > 0 is given; limit is Absent for None
Limited(days_list, limit) ==
    IF limit # Absent /\ limit[1] > 0 THEN Slice(days_list, 0, limit[1])
    ELSE days_list

get_recent_days_with_activity(limit) ==
    Limited(SortedReverse(
                TempDays(SelectDistinctDay("temp_items"))
                \cup DaysOf({meal_plan[i].day : i \in DOMAIN meal_plan})),
            limit)

\* days_data.append(summary) unless get_day_summary raised
Appended(summary) == IF summary.raised THEN <<>> ELSE <<summary>>

\* the loop of get_recent_days over page_days: a day whose summary raises is
\* skipped
RECURSIVE DaysData(_)
DaysData(page_days) ==
    IF page_days = <<>> THEN <<>>
    ELSE Appended(get_day_summary(Head(page_days)))
         \o DaysData(Tail(page_days))

Max(a, b) == IF a > b THEN a ELSE b

Min(a, b) == IF a < b THEN a ELSE b

\* the result for the clamped page
PageResult(all_days, limit, total_pages, page) ==
    [status |-> "ok",
     days |-> DaysData(Slice(all_days, page * limit, page * limit + limit)),
     total_pages |-> total_pages,
     current_page |-> page,
     total_days |-> Len(all_days)]

\* page = max(0, min(page, total_pages - 1))
Clamped(all_days, limit, total_pages, page) ==
    PageResult(all_days, limit, total_pages, Max(0, Min(page, total_pages - 1)))

\* total_pages = max(1, (total_days + limit - 1) // limit)
Paginated(all_days, page, limit) ==
    Clamped(all_days, limit,
            Max(1, (Len(all_days) + limit - 1) \div limit), page)

\* limit = 0 raises ZeroDivisionError, which the outer except turns into
\* the error envelope
get_recent_days(page, limit) ==
    IF limit = 0 THEN [status |-> "error"]
    ELSE Paginated(get_recent_days_with_activity(Absent), page, limit)

----------------------------------------------------------------------------
(* Specification SpecRecent: days become active through meal-plan entries  *)
(* and logged items, and the recent days are listed and paged              *)

RecentDays == {<<2025, 2, 27>>, <<2025, 2, 28>>, <<2025, 3, 1>>}

\* one done recipe entry per day, and one entry without a day
RecentPlanEntries ==
    {PlanEntry(d, Present(1), Present(7), Absent, Absent, Absent) :
        d \in RecentDays \cup {None}}

RecentTempItems ==
    {TempItem("snack", 100000, 10000, 1000, 2000, d) : d \in RecentDays}

LimitArgs == {Absent, Present(0), Present(1), Present(2)}

PageArgs == {-1, 0, 1, 2, 5}

PageLimits == {0, 1, 2}

CallGetRecentDaysWithActivity(limit) ==
    /\ ret' = [op |-> "get_recent_days_with_activity", limit |-> limit,
               value |-> get_recent_days_with_activity(limit)]
    /\ UNCHANGED <<stock, now, env, config, temp_items, next_id, meal_plan>>

CallGetRecentDays(page, limit) ==
    /\ ret' = [op |-> "get_recent_days", page |-> page, limit |-> limit,
               value |-> get_recent_days(page, limit)]
    /\ UNCHANGED <<stock, now, env, config, temp_items, next_id, meal_plan>>

NextRecent ==
    \/ \E entry \in RecentPlanEntries : CreateMealPlanEntry(entry)
    \/ \E item \in RecentTempItems : CreateTempItem(item)
    \/ \E limit \in LimitArgs : CallGetRecentDaysWithActivity(limit)
    \/ \E page \in PageArgs, limit \in PageLimits : CallGetRecentDays(page, limit)

SpecRecent == Init /\ [][NextRecent]_vars

----------------------------------------------------------------------------
(* Claims about the recent days                                            *)

\* the days with a TemporaryItem row or a meal-plan entry
ActiveDays ==
    ({temp_items[i].day : i \in DOMAIN temp_items}
     \cup {meal_plan[i].day : i \in DOMAIN meal_plan}) \ {None}

\* ceil(n / d) for d >= 1
CeilDiv(n, d) == (n + d - 1) \div d

\* C8: get_recent_days(page, limit) with limit >= 1 over N active days
\* returns total_days = N, total_pages = max(1, ceil(N/limit)), current_page
\* = page clamped into [0, total_pages-1] and days = the summaries of the
\* descending-sorted active days at [current_page*limit, +limit).
C8_Pagination ==
    ret.op = "get_recent_days" /\ ret.limit >= 1 =>
        LET N == Cardinality(ActiveDays)
            pages == Max(1, CeilDiv(N, ret.limit))
            current == Max(0, Min(ret.page, pages - 1))
            shown == Slice(SortedReverse(ActiveDays), current * ret.limit,
                           current * ret.limit + ret.limit)
        IN  /\ ret.value.status = "ok"
            /\ ret.value.total_days = N
            /\ ret.value.total_pages = pages
            /\ ret.value.current_page = current
            /\ ret.value.days = [i \in DOMAIN shown |-> get_day_summary(shown[i])]

\* C9: get_recent_days_with_activity(limit) returns the union of the days
\* of all TemporaryItem rows and of all meal-plan entries, without
\* duplicates, sorted descending, cut to the first limit elements when a
\* limit (>= 1) is given.
C9_ActivityUnion ==
    /\ ret.op = "get_recent_days_with_activity"
    /\ ret.limit = Absent \/ ret.limit[1] >= 1
    => ret.value = IF ret.limit = Absent THEN SortedReverse(ActiveDays)
                   ELSE Slice(SortedReverse(ActiveDays), 0, ret.limit[1])

----------------------------------------------------------------------------
(* Specification SpecGoal: get_goal_macros under every combination of      *)
(* environment overrides and stored goal values                            *)

\* unset, set but empty, an integer, not a number
GoalCaloriesEnv == {None, <<>>, <<"2", "0", "0", "0">>, <<"a", "b", "c">>}

\* no row, an empty value, the seeded value, another value
GoalCaloriesStored ==
    {None, <<>>, <<"3", "5", "0", "0">>, <<"1", "8", "0", "0">>}

InitGoal ==
    /\ stock = InitialStock
    /\ now = DateTime(2025, 3, 1, 12, 0, 0)
    /\ \E cals \in GoalCaloriesEnv,
          carbs \in {None, <<"1", "2", ".", "5">>},
          fats \in {None, <<"8", "0">>},
          protein \in {None, <<>>} :
          env = [EnvUnset EXCEPT !["MACRO_GOAL_CALORIES"] = cals,
                                 !["MACRO_GOAL_CARBS"] = carbs,
                                 !["MACRO_GOAL_FATS"] = fats,
                                 !["MACRO_GOAL_PROTEIN"] = protein]
    /\ \E cals \in GoalCaloriesStored,
          carbs \in {None, <<"3", "5", "0">>},
          fats \in {<<"x">>, <<"1", "0", "0">>},
          protein \in {None, <<"2", "5", "0">>} :
          config = [SeededConfig EXCEPT !["goal_calories"] = cals,
                                        !["goal_carbs"] = carbs,
                                        !["goal_fats"] = fats,
                                        !["goal_protein"] = protein]
    /\ temp_items = <<>>
    /\ next_id = 1
    /\ meal_plan = <<>>
    /\ ret = [op |-> "none"]

CallGetGoalMacros ==
    /\ ret.op = "none"
    /\ ret' = [op |-> "get_goal_macros", raised |-> get_goal_macros.raised,
               value |-> get_goal_macros.value]
    /\ UNCHANGED <<stock, now, env, config, temp_items, next_id, meal_plan>>

NextGoal == CallGetGoalMacros

SpecGoal == InitGoal /\ [][NextGoal]_vars

----------------------------------------------------------------------------
(* Claims about the goal                                                   *)

\* the tier that decides a goal: the environment variable when set (to a
\* non-empty value), otherwise the stored value (when there is a non-empty
\* one), otherwise the hardcoded default
GoalTier(name, key, default) ==
    IF env[name] \notin {None, <<>>} THEN env[name]
    ELSE IF config[key] \notin {None, <<>>} THEN config[key]
    ELSE default

\* C10: each of the four goal values get_goal_macros returns is the number
\* written in the MACRO_GOAL_* environment variable when set, otherwise in
\* the stored goal_* value, otherwise the default 3500/350/100/250.
C10_GoalPrecedence ==
    ret.op = "get_goal_macros" /\ ~ret.raised =>
        /\ ret.value.calories
           = ParseInt(GoalTier("MACRO_GOAL_CALORIES", "goal_calories",
                               <<"3", "5", "0", "0">>)).val
        /\ ret.value.carbs
           = ParseFloat(GoalTier("MACRO_GOAL_CARBS", "goal_carbs",
                                 <<"3", "5", "0">>)).val
        /\ ret.value.fats
           = ParseFloat(GoalTier("MACRO_GOAL_FATS", "goal_fats",
                                 <<"1", "0", "0">>)).val
        /\ ret.value.protein
           = ParseFloat(GoalTier("MACRO_GOAL_PROTEIN", "goal_protein",
                                 <<"2", "5", "0">>)).val

\* C10 witness: MACRO_GOAL_CALORIES=2000 over a stored 3500 resolves to
\* 2000, beside a goal taken from the store and one from the default
C10_Witness ==
    /\ ret.op = "get_goal_macros" /\ ~ret.raised
    /\ env["MACRO_GOAL_CALORIES"] = <<"2", "0", "0", "0">>
    /\ config["goal_calories"] = <<"3", "5", "0", "0">>
    /\ ret.value.calories = 2000
    /\ env["MACRO_GOAL_FATS"] = None /\ ret.value.fats = 100000
    /\ env["MACRO_GOAL_PROTEIN"] = <<>> /\ config["goal_protein"] = None
    /\ ret.value.protein = 250000

\* the number of the first tier that parses as a number
FirstNumeric(from_env, from_store, default) ==
    IF from_env.ok THEN from_env.val
    ELSE IF from_store.ok THEN from_store.val
    ELSE default

\* C11: a goal override that does not parse as a number is never raised to
\* the caller of get_goal_macros: the resolution falls through to the next
\* tier and a numeric goal is returned.
C11_NonNumericFallsThrough ==
    ret.op = "get_goal_macros" =>
        /\ ~ret.raised
        /\ ret.value.calories
           = FirstNumeric(ParseInt(env["MACRO_GOAL_CALORIES"]),
                          ParseInt(config["goal_calories"]), 3500)
        /\ ret.value.carbs
           = FirstNumeric(ParseFloat(env["MACRO_GOAL_CARBS"]),
                          ParseFloat(config["goal_carbs"]), 350000)
        /\ ret.value.fats
           = FirstNumeric(ParseFloat(env["MACRO_GOAL_FATS"]),
                          ParseFloat(config["goal_fats"]), 100000)
        /\ ret.value.protein
           = FirstNumeric(ParseFloat(env["MACRO_GOAL_PROTEIN"]),
                          ParseFloat(config["goal_protein"]), 250000)

----------------------------------------------------------------------------
(* Failure semantics of the day-boundary resolver                          *)

\* C13: no operation of the day-boundary resolver raises; whatever the
\* environment value, the stored value and the day argument, the call
\* returns a result.
C13_ResolverNeverRaises ==
    ret.op \in {"get_datetime_range_for_day", "is_datetime_in_day"} =>
        ~ret.raised

----------------------------------------------------------------------------
(* Failure paths: the backend or the ledger does not answer                *)

\* GrocyClient().list_meal_plan(): the entries, or an exception (unreachable
\* host, non-2xx answer, missing API key)
list_meal_plan(backend_up) == IF backend_up THEN Ok(meal_plan) ELSE Fail

\* execute_query on grocy_temp_items: the rows, or the connection error
select_temp_items(ledger_up) == IF ledger_up THEN Ok(temp_items) ELSE Fail

\* get_grocy_consumed_for_day with its outer handler: [] when the listing
\* raised
GrocyConsumed(listing, day) ==
    IF listing.ok THEN get_grocy_consumed_for_day(listing.val, day) ELSE <<>>

\* mutant: a failed listing leaves the plan of the last successful listing
GrocyPlanned_cached(listing, day) == get_grocy_planned_for_day(meal_plan, day)

\* get_grocy_planned_for_day with its outer handler: zeros when the listing
\* raised
GrocyPlanned(listing, day) ==
    IF listing.ok THEN get_grocy_planned_for_day(listing.val, day)
    ELSE Macros(0, 0, 0, 0)

\* get_temp_consumed_for_day with its handler: [] when the query raised
TempConsumed(rows, day) ==
    IF rows.ok THEN get_temp_consumed_for_day(rows.val, day) ELSE <<>>

\* os.getenv(name) or macro_db.get_config(key) or default: get_config is
\* called, and raises when the ledger is down, only if the variable is unset
\* or empty
FirstTruthyVia(name, key, default, ledger_up) ==
    IF env[name] # None /\ env[name] # <<>> THEN Ok(env[name])
    ELSE IF ~ledger_up THEN Fail
    ELSE Ok(FirstTruthy(name, key, default))

\* int(...) of the value, or the exception already raised
ParseIntOf(r) == IF r.ok THEN ParseInt(r.val) ELSE Fail

\* float(...) of the value, or the exception already raised
ParseFloatOf(r) == IF r.ok THEN ParseFloat(r.val) ELSE Fail

\* get_goal_macros with a ledger that may be down
GoalVia(ledger_up) ==
    GoalOf(ParseIntOf(FirstTruthyVia("MACRO_GOAL_CALORIES", "goal_calories",
                                     <<"3", "5", "0", "0">>, ledger_up)),
           ParseFloatOf(FirstTruthyVia("MACRO_GOAL_CARBS", "goal_carbs",
                                       <<"3", "5", "0">>, ledger_up)),
           ParseFloatOf(FirstTruthyVia("MACRO_GOAL_FATS", "goal_fats",
                                       <<"1", "0", "0">>, ledger_up)),
           ParseFloatOf(FirstTruthyVia("MACRO_GOAL_PROTEIN", "goal_protein",
                                       <<"2", "5", "0">>, ledger_up)))

\* get_day_summary over the outcome of the listing, of the query and of
\* get_goal_macros
DaySummaryVia(day, listing, rows, goal) ==
    [raised |-> goal.raised,
     day |-> day,
     consumed |-> ConsumedTotals(GrocyConsumed(listing, day)
                                 \o TempConsumed(rows, day)),
     planned |-> GrocyPlanned(listing, day),
     goal |-> goal.value]

\* get_day_start_hour returns from its DAY_START_TIME branch, before any
\* query of the ledger
EnvTimeAccepted ==
    LET env_time == env["DAY_START_TIME"]
    IN  /\ env_time # None
        /\ Len(env_time) = 4
        /\ isdigit(env_time)
        /\ ParseInt(SubSeq(env_time, 1, 2)).ok
        /\ ParseInt(SubSeq(env_time, 1, 2)).val \in 0..23

\* get_current_day_timestamp with a ledger that may be down: get_config
\* raises out of get_day_start_hour
CurrentDayVia(ledger_up) ==
    IF EnvTimeAccepted \/ ledger_up THEN Ok(get_current_day_timestamp)
    ELSE Fail

\* except Exception as exc: return {"status": "error", "message": str(exc)}
ErrorEnvelope == [status |-> "error"]

\* return summary, unless get_day_summary raised
Envelope(summary) == IF summary.raised THEN ErrorEnvelope ELSE summary

\* get_day_macros(day) with day given
DayMacrosOn(day, backend_up, ledger_up) ==
    Envelope(DaySummaryVia(day, list_meal_plan(backend_up),
                           select_temp_items(ledger_up), GoalVia(ledger_up)))

\* get_day_macros(day): day is Absent for None
get_day_macros(day, backend_up, ledger_up) ==
    IF day # Absent THEN DayMacrosOn(day[1], backend_up, ledger_up)
    ELSE IF CurrentDayVia(ledger_up).ok
    THEN DayMacrosOn(get_current_day_timestamp, backend_up, ledger_up)
    ELSE ErrorEnvelope

\* the days of the meal plan, none when the listing raised
PlanDaysOf(listing) ==
    IF listing.ok
    THEN DaysOf({listing.val[i].day : i \in DOMAIN listing.val})
    ELSE {}

\* get_recent_days_with_activity(limit=None) over the outcome of the listing
ActivityVia(listing) ==
    SortedReverse(TempDays(SelectDistinctDay("temp_items"))
                  \cup PlanDaysOf(listing))

\* the loop of get_recent_days over page_days: a day whose summary raises is
\* skipped
RECURSIVE DaysDataVia(_, _, _, _)
DaysDataVia(page_days, listing, rows, goal) ==
    IF page_days = <<>> THEN <<>>
    ELSE Appended(DaySummaryVia(Head(page_days), listing, rows, goal))
         \o DaysDataVia(Tail(page_days), listing, rows, goal)

\* the dict get_recent_days returns for the clamped page
PageResultVia(all_days, limit, total_pages, page, backend_up, ledger_up) ==
    [days |-> DaysDataVia(Slice(all_days, page * limit, page * limit + limit),
                          list_meal_plan(backend_up),
                          select_temp_items(ledger_up), GoalVia(ledger_up)),
     total_pages |-> total_pages,
     current_page |-> page,
     total_days |-> Len(all_days)]

\* total_pages = max(1, (total_days + limit - 1) // limit) and
\* page = max(0, min(page, total_pages - 1))
PaginatedVia(all_days, page, limit, backend_up, ledger_up) ==
    PageResultVia(all_days, limit,
                  Max(1, (Len(all_days) + limit - 1) \div limit),
                  Max(0, Min(page, Max(1, (Len(all_days) + limit - 1)
                                          \div limit) - 1)),
                  backend_up, ledger_up)

\* get_recent_days(page, limit) with a backend and a ledger that may be down
get_recent_days_via(page, limit, backend_up, ledger_up) ==
    IF limit = 0 THEN ErrorEnvelope
    ELSE PaginatedVia(ActivityVia(list_meal_plan(backend_up)), page, limit,
                      backend_up, ledger_up)

----------------------------------------------------------------------------
(* Specification SpecOutage: the queries over a fixed meal plan and ledger, *)
(* each call with the backend and the ledger up or down                    *)

DoneEntry(day, recipe_id, product_id) ==
    PlanEntry(day, Present(1), recipe_id, product_id, Absent, Absent)

\* meal plans: empty; three done entries of D1 of which the middle one's
\* recipe lookup fails, and an entry of D2; a product whose userfields
\* cannot be read before one that can, and an entry that is not done
OutagePlans ==
    {<<>>,
     <<DoneEntry(D1, Present(7), Absent), DoneEntry(D1, Present(9), Absent),
       DoneEntry(D1, Absent, Present(4)), DoneEntry(D2, Present(8), Absent)>>,
     <<DoneEntry(D1, Absent, Present(5)), DoneEntry(D1, Absent, Present(4)),
       PlanEntry(D1, Present(0), Present(7), Absent, Absent, Absent)>>}

\* the rows of grocy_temp_items: none, or one item of D1
OutageLedgers ==
    {<<>>,
     <<[id |-> 1, name |-> "shake", calories |-> 150000, carbs |-> 15000,
        fats |-> 5000, protein |-> 5000, day |-> D1]>>}

\* the MACRO_GOAL_* overrides: none set, all four set, only the calories set
OutageGoals ==
    {EnvUnset,
     [EnvUnset EXCEPT !["MACRO_GOAL_CALORIES"] = <<"2", "0", "0", "0">>,
                      !["MACRO_GOAL_CARBS"] = <<"2", "0", "0">>,
                      !["MACRO_GOAL_FATS"] = <<"7", "0">>,
                      !["MACRO_GOAL_PROTEIN"] = <<"1", "5", "0">>],
     [EnvUnset EXCEPT !["MACRO_GOAL_CALORIES"] = <<"2", "0", "0", "0">>]}

OutageStartTimes == {None, <<"0", "6", "0", "0">>}

OutageClocks == {DateTime(2025, 3, 1, 12, 0, 0), DateTime(2025, 3, 1, 3, 0, 0)}

OutageDayArgs == {Absent, Present(D1), Present(D2)}

InitOutage ==
    /\ stock = InitialStock
    /\ now \in OutageClocks
    /\ \E goals \in OutageGoals, start \in OutageStartTimes :
          env = [goals EXCEPT !["DAY_START_TIME"] = start]
    /\ config = SeededConfig
    /\ temp_items \in OutageLedgers
    /\ next_id = Len(temp_items) + 1
    /\ meal_plan \in OutagePlans
    /\ ret = [op |-> "none"]

\* macro_aggregator.get_day_summary(day)
CallGetDaySummaryVia(day, backend_up, ledger_up) ==
    /\ ret.op = "none"
    /\ ret' = [op |-> "get_day_summary", day |-> day,
               backend_up |-> backend_up, ledger_up |-> ledger_up,
               value |-> DaySummaryVia(day, list_meal_plan(backend_up),
                                       select_temp_items(ledger_up),
                                       GoalVia(ledger_up))]
    /\ UNCHANGED <<stock, now, env, config, temp_items, next_id, meal_plan>>

\* integrations/macros.get_day_macros(day)
CallGetDayMacros(day, backend_up, ledger_up) ==
    /\ ret.op = "none"
    /\ ret' = [op |-> "get_day_macros", day |-> day,
               backend_up |-> backend_up, ledger_up |-> ledger_up,
               value |-> get_day_macros(day, backend_up, ledger_up)]
    /\ UNCHANGED <<stock, now, env, config, temp_items, next_id, meal_plan>>

\* integrations/macros.get_recent_days(page, limit)
CallGetRecentDaysVia(page, limit, backend_up, ledger_up) ==
    /\ ret.op = "none"
    /\ ret' = [op |-> "get_recent_days", page |-> page, limit |-> limit,
               backend_up |-> backend_up, ledger_up |-> ledger_up,
               value |-> get_recent_days_via(page, limit, backend_up,
                                             ledger_up)]
    /\ UNCHANGED <<stock, now, env, config, temp_items, next_id, meal_plan>>

NextOutage ==
    \/ \E day \in PlanDays, backend_up \in BOOLEAN, ledger_up \in BOOLEAN :
          CallGetDaySummaryVia(day, backend_up, ledger_up)
    \/ \E day \in OutageDayArgs, backend_up \in BOOLEAN, ledger_up \in BOOLEAN :
          CallGetDayMacros(day, backend_up, ledger_up)
    \/ \E page \in {0, 1}, limit \in {0, 1, 2}, backend_up \in BOOLEAN,
          ledger_up \in BOOLEAN :
          CallGetRecentDaysVia(page, limit, backend_up, ledger_up)

SpecOutage == InitOutage /\ [][NextOutage]_vars

----------------------------------------------------------------------------
(* Claims about the failure paths                                          *)

\* the (type, id) pairs of a list of consumed entries
Idents(entries) ==
    [i \in DOMAIN entries |-> <<entries[i].type, entries[i].id>>]

\* whether the lookups the consumed part makes for the entry all answer
LookupAnswers(entry) ==
    IF entry.recipe_id # Absent THEN get_recipe(entry.recipe_id[1]).ok
    ELSE /\ entry.product_id # Absent
         /\ get_product(entry.product_id[1]).ok
         /\ get_product_userfields(entry.product_id[1]).ok

\* the done entries of the day whose lookups answer, as (type, id) pairs in
\* plan order
RECURSIVE AnsweredIdents(_, _)
AnsweredIdents(entries, day) ==
    IF entries = <<>> THEN <<>>
    ELSE LET e == Head(entries)
         IN  (IF e.day = day /\ IsDone(e) /\ LookupAnswers(e)
              THEN IF e.recipe_id # Absent
                   THEN << <<"recipe", e.recipe_id[1]>> >>
                   ELSE << <<"product", e.product_id[1]>> >>
              ELSE <<>>)
             \o AnsweredIdents(Tail(entries), day)

\* C14: with the ledger reachable get_day_summary(day) does not raise
\* because of the backend: when listing the meal plan fails the
\* backend-consumed part is empty and planned is all zeros; when a single
\* lookup fails only that entry is skipped and the other entries of the day
\* are aggregated; the result has the keys day, consumed{calories, carbs,
\* fats, protein, entries}, planned and goal.
C14_BackendFailuresDegrade ==
    ret.op = "get_day_summary" /\ ret.ledger_up =>
        /\ ~ret.value.raised
        /\ {"day", "consumed", "planned", "goal"} \subseteq DOMAIN ret.value
        /\ DOMAIN ret.value.consumed
              = {"calories", "carbs", "fats", "protein", "entries"}
        /\ Idents(SelectSeq(ret.value.consumed.entries,
                            LAMBDA e : e.type = "temp"))
              = [i \in DOMAIN get_temp_items_for_day(temp_items, ret.day) |->
                    <<"temp", get_temp_items_for_day(temp_items, ret.day)[i].id>>]
        /\ IF ret.backend_up
           THEN Idents(SelectSeq(ret.value.consumed.entries,
                                 LAMBDA e : e.type # "temp"))
                   = AnsweredIdents(meal_plan, ret.day)
           ELSE /\ SelectSeq(ret.value.consumed.entries,
                             LAMBDA e : e.type # "temp") = <<>>
                /\ ret.value.planned = Macros(0, 0, 0, 0)

\* a day with three done entries whose middle lookup fails is summarised
\* with the first and the third, and the same day with the backend down
\* would be empty
C14_Witness ==
    /\ ret.op = "get_day_summary"
    /\ ret.ledger_up
    /\ ret.backend_up
    /\ ret.day = D1
    /\ Len(meal_plan) = 4
    /\ Idents(SelectSeq(ret.value.consumed.entries, LAMBDA e : e.type # "temp"))
          = << <<"recipe", 7>>, <<"product", 4>> >>

\* listing fails: nothing of the non-empty plan is counted
C14_WitnessDown ==
    /\ ret.op = "get_day_summary"
    /\ ret.ledger_up
    /\ ~ret.backend_up
    /\ ret.day = D1
    /\ Len(meal_plan) = 4
    /\ Len(temp_items) = 1
    /\ Len(ret.value.consumed.entries) = 1
    /\ ret.value.planned.calories = 0

\* C15: with the ledger unreachable get_day_macros and get_recent_days
\* return the {status: "error", message} envelope and never a summary,
\* whatever the environment overrides.
C15_LedgerDownIsError ==
    ret.op \in {"get_day_macros", "get_recent_days"} /\ ~ret.ledger_up =>
        ret.value = ErrorEnvelope

----------------------------------------------------------------------------
(* Flows that write the meal plan: add to plan, consume with logging, mark *)
(* done (api.py, tools/grocy_tools.py)                                      *)

DoneFields == <<"done", "is_done", "completed">>

\* an entry as the backend returns it after POST /objects/meal_plan with the
\* fields of the add-to-plan and consume flows: the multiplier is under
\* recipe_servings or product_amount, and of the done fields the entry has
\* the ones the backend's schema has (columns), unset
FlowEntry(day, recipe_id, product_id, recipe_servings, product_amount, columns) ==
    [day |-> day,
     done |-> IF "done" \in columns THEN Present(0) ELSE Absent,
     is_done |-> IF "is_done" \in columns THEN Present(0) ELSE Absent,
     completed |-> IF "completed" \in columns THEN Present(0) ELSE Absent,
     recipe_id |-> recipe_id, product_id |-> product_id,
     servings |-> Absent, amount |-> Absent,
     recipe_servings |-> recipe_servings, product_amount |-> product_amount]

\* the done fields the backend's meal-plan objects have
DoneColumns ==
    IF meal_plan = <<>> THEN {}
    ELSE {f \in {"done", "is_done", "completed"} : meal_plan[1][f] # Absent}

\* PUT /objects/meal_plan/{entry_id} with {field: True}: answers is whether
\* the backend is reached; an unknown entry or field is refused
UpdateAccepted(entry_id, field, answers) ==
    answers /\ entry_id \in DOMAIN meal_plan /\ field \in DoneColumns

\* the meal plan after update_meal_plan_entry(entry_id, {field: True})
Updated(entry_id, field, accepted) ==
    IF accepted THEN [meal_plan EXCEPT ![entry_id][field] = Present(1)]
    ELSE meal_plan

\* the field names a flow tries
FieldsOf(op) ==
    IF op = "GROCY_ACTION_MarkMealDone" THEN <<"done">> ELSE DoneFields

FlowOps ==
    {"mark_meal_plan_done_json", "consume_product_quantity_json",
     "GROCY_ACTION_MarkMealDone"}

\* no flow is between two of its steps
Idle == IF ret.op \in FlowOps THEN ret.pc = "returned" ELSE TRUE

\* the frame of a flow before its first update
Frame(op, entry_id) ==
    [op |-> op, entry_id |-> entry_id, pc |-> "update", k |-> 1,
     issued |-> <<>>, status |-> "pending"]

\* the frame after the update of field k: return on success, continue with
\* the next field on failure, give up after the last one
Stepped(frame, accepted) ==
    [frame EXCEPT
        !.issued = Append(@, [field |-> FieldsOf(frame.op)[frame.k],
                              ok |-> accepted]),
        !.k = @ + 1,
        !.pc = IF accepted \/ frame.k = Len(FieldsOf(frame.op))
               THEN "returned" ELSE "update",
        !.status = IF accepted THEN "ok"
                   ELSE IF frame.k = Len(FieldsOf(frame.op)) THEN "error"
                   ELSE "pending"]

----------------------------------------------------------------------------
(* Specification SpecMark: entries are added to the plan, products are     *)
(* consumed with logging, entries are marked done one update at a time,    *)
(* and days are summarised between the flows                               *)

MaxFlowPlan == 3

\* the backend's schema has one of the three done fields, or none of them
SchemaChoices == {{"done"}, {"is_done"}, {"completed"}, {}}

InitMark ==
    /\ stock = [InitialStock EXCEPT ![4].amount = MaxFlowPlan * 2000]
    /\ now = DateTime(2025, 3, 1, 12, 0, 0)
    /\ env = EnvUnset
    /\ config = SeededConfig
    /\ temp_items = <<>>
    /\ next_id = 1
    /\ \E columns \in SchemaChoices :
          meal_plan = <<FlowEntry(D1, Present(7), Absent, Present(1000),
                                  Absent, columns)>>
    /\ ret = [op |-> "none"]

\* GROCY_ACTION_AddMealToPlan(day, "recipe", recipe_id, recipe_servings)
AddMealToPlan(day, recipe_id, recipe_servings) ==
    /\ Idle
    /\ Len(meal_plan) < MaxFlowPlan
    /\ meal_plan' = Append(meal_plan,
                           FlowEntry(day, Present(recipe_id), Absent,
                                     Present(recipe_servings), Absent,
                                     DoneColumns))
    /\ ret' = [op |-> "GROCY_ACTION_AddMealToPlan", value |-> TRUE]
    /\ UNCHANGED <<stock, now, env, config, temp_items, next_id>>

\* consume_product_quantity_json(product_id, quantity, add_to_meal_plan=True)
\* up to its mark-done loop: the entry of today is created and found again
\* as the last entry of the product
StartConsume(product_id, quantity) ==
    /\ Idle
    /\ Len(meal_plan) < MaxFlowPlan
    /\ stock[product_id].amount >= quantity
    /\ stock' = [stock EXCEPT ![product_id].amount = @ - quantity]
    /\ meal_plan' = Append(meal_plan,
                           FlowEntry(get_current_day_timestamp, Absent,
                                     Present(product_id), Absent,
                                     Present(quantity), DoneColumns))
    /\ ret' = Frame("consume_product_quantity_json", Len(meal_plan) + 1)
    /\ UNCHANGED <<now, env, config, temp_items, next_id>>

\* GROCY_UPDATE_ConsumeProduct(product_id, quantity, add_to_meal_plan=True):
\* the entry of today is created and the tool returns status ok
ToolConsumeProduct(product_id, quantity) ==
    /\ Idle
    /\ Len(meal_plan) < MaxFlowPlan
    /\ stock[product_id].amount >= quantity
    /\ stock' = [stock EXCEPT ![product_id].amount = @ - quantity]
    /\ meal_plan' = Append(meal_plan,
                           FlowEntry(get_current_day_timestamp, Absent,
                                     Present(product_id), Absent,
                                     Present(quantity), DoneColumns))
    /\ ret' = [op |-> "GROCY_UPDATE_ConsumeProduct",
               entry_id |-> Len(meal_plan) + 1, status |-> "ok"]
    /\ UNCHANGED <<now, env, config, temp_items, next_id>>

\* mark_meal_plan_done_json(entry_id) and GROCY_ACTION_MarkMealDone(entry_id)
\* up to the first update
StartMarkDone(op, entry_id) ==
    /\ Idle
    /\ ret' = Frame(op, entry_id)
    /\ UNCHANGED <<stock, now, env, config, temp_items, next_id, meal_plan>>

\* one client.update_meal_plan_entry(entry_id, {done_field: True}) of the
\* running flow and what the flow does with its outcome; status "error" of
\* the consume flow is its message "could not mark done"
UpdateStep(answers) ==
    /\ ret.op \in FlowOps
    /\ ret.pc = "update"
    /\ meal_plan' = Updated(ret.entry_id, FieldsOf(ret.op)[ret.k],
                            UpdateAccepted(ret.entry_id,
                                           FieldsOf(ret.op)[ret.k], answers))
    /\ ret' = Stepped(ret, UpdateAccepted(ret.entry_id,
                                          FieldsOf(ret.op)[ret.k], answers))
    /\ UNCHANGED <<stock, now, env, config, temp_items, next_id>>

\* macro_aggregator.get_day_summary(day) between two flows
SummariseDay(day) ==
    /\ Idle
    /\ ret' = [op |-> "get_day_summary", day |-> day,
               value |-> get_day_summary(day)]
    /\ UNCHANGED <<stock, now, env, config, temp_items, next_id, meal_plan>>

NextMark ==
    \/ AddMealToPlan(D1, 7, 2000)
    \/ StartConsume(4, 2000)
    \/ ToolConsumeProduct(4, 2000)
    \/ \E entry_id \in 1..MaxFlowPlan :
          \/ StartMarkDone("mark_meal_plan_done_json", entry_id)
          \/ StartMarkDone("GROCY_ACTION_MarkMealDone", entry_id)
    \/ \E answers \in BOOLEAN : UpdateStep(answers)
    \/ \E day \in PlanDays : SummariseDay(day)

SpecMark == InitMark /\ [][NextMark]_vars

----------------------------------------------------------------------------
(* Claims about the done fields and the multiplier of written entries      *)

\* at least one of the three done fields is present and truthy
AnyDoneFlag(entry) ==
    \E f \in {"done", "is_done", "completed"} :
        entry[f] # Absent /\ entry[f][1] # 0

\* the (type, id) pair a meal-plan entry is listed under
IdentOf(entry) ==
    IF entry.recipe_id # Absent THEN <<"recipe", entry.recipe_id[1]>>
    ELSE <<"product", entry.product_id[1]>>

\* the entries of the day with a done flag, in plan order
FlaggedOfDay(day) ==
    SelectSeq(meal_plan, LAMBDA e : e.day = day /\ AnyDoneFlag(e))

\* C16: an entry of day D is counted as consumed by get_day_summary(D) if
\* and only if at least one of its fields done, is_done, completed is
\* present and truthy; an entry with none of the three, or with the present
\* ones 0, is not counted.  (Every recipe and product of this specification
\* can be looked up.)
C16_DoneProbe ==
    ret.op = "get_day_summary" =>
        Idents(ret.value.consumed.entries)
           = [i \in DOMAIN FlaggedOfDay(ret.day) |->
                 IdentOf(FlaggedOfDay(ret.day)[i])]

\* a day with an entry marked through is_done, which is counted, and an
\* entry whose is_done is 0, which is not
C16_Witness ==
    /\ ret.op = "get_day_summary"
    /\ ret.day = D1
    /\ \E i, j \in DOMAIN meal_plan :
          /\ meal_plan[i].day = D1 /\ meal_plan[j].day = D1
          /\ meal_plan[i].done = Absent
          /\ meal_plan[i].is_done = Present(1)
          /\ meal_plan[j].is_done = Present(0)
    /\ Len(ret.value.consumed.entries) >= 1

\* the updates a flow has issued are the first names of done, is_done,
\* completed, in that order
IssuedInOrder(frame) ==
    /\ Len(frame.issued) <= 3
    /\ \A n \in DOMAIN frame.issued : frame.issued[n].field = DoneFields[n]

\* C17: every flow that marks an entry done tries done, is_done, completed
\* in that order, issues the next update only after the previous one failed,
\* stops at the first successful update, and reports an error only when all
\* three updates failed.
C17_ProbeAllThree ==
    ret.op \in FlowOps =>
        /\ IssuedInOrder(ret)
        /\ \A n \in DOMAIN ret.issued : n < Len(ret.issued) => ~ret.issued[n].ok
        /\ ret.pc = "returned" /\ ret.status = "ok" =>
              ret.issued[Len(ret.issued)].ok
        /\ ret.pc = "returned" /\ ret.status = "error" =>
              /\ Len(ret.issued) = 3
              /\ \A n \in 1..3 : ~ret.issued[n].ok
        /\ ret.pc = "update" =>
              \A n \in DOMAIN ret.issued : ~ret.issued[n].ok

\* the multiplier a flow recorded in the entry, 1.0 when it recorded none
Recorded(entry) ==
    IF entry.recipe_id # Absent
    THEN IF entry.recipe_servings # Absent THEN entry.recipe_servings[1]
         ELSE 1000
    ELSE IF entry.product_amount # Absent THEN entry.product_amount[1]
         ELSE 1000

\* the calories per serving the backend holds for the entry, in thousandths
PerServingCalories(entry) ==
    IF entry.recipe_id # Absent
    THEN RecipeFloats[entry.recipe_id[1]].calories
    ELSE ProductFloats[entry.product_id[1]].calories

\* C18: a done entry written by the add-to-plan or the consume-with-logging
\* flow, which record the multiplier under recipe_servings or
\* product_amount, contributes its per-serving macros multiplied by the
\* recorded value, not by 1.0.
C18_RecordedMultiplier ==
    ret.op = "get_day_summary"
    /\ Len(ret.value.consumed.entries) = Len(FlaggedOfDay(ret.day))
    => \A i \in DOMAIN FlaggedOfDay(ret.day) :
          /\ ret.value.consumed.entries[i].servings
                = Present(Recorded(FlaggedOfDay(ret.day)[i]))
          /\ ret.value.consumed.entries[i].calories * 1000
                = Mul(PerServingCalories(FlaggedOfDay(ret.day)[i]),
                      Recorded(FlaggedOfDay(ret.day)[i]))

----------------------------------------------------------------------------
(* Specification SpecQuery: the two queries of integrations/macros.py,     *)
(* each preceded by the imports it triggers                                *)

\* db.init_schema: CREATE TABLE IF NOT EXISTS, then for each default
\* INSERT INTO grocy_config ... ON CONFLICT (key) DO NOTHING; rows is the
\* content of grocy_config with None for a key that has no row
init_schema(rows) ==
    [k \in ConfigKeys |-> IF rows[k] = None THEN SeededConfig[k] ELSE rows[k]]

\* grocy_config before the call: seeded, changed by the user, a database
\* that has never been initialised, and one with a row removed
QueryConfigs ==
    {SeededConfig,
     [SeededConfig EXCEPT !["goal_calories"] = <<"1", "8", "0", "0">>,
                          !["day_start_hour"] = <<"4">>],
     [k \in ConfigKeys |-> None],
     [SeededConfig EXCEPT !["goal_fats"] = None]}

InitQuery ==
    /\ stock = InitialStock
    /\ now \in OutageClocks
    /\ env = EnvUnset
    /\ config \in QueryConfigs
    /\ temp_items \in OutageLedgers
    /\ next_id = Len(temp_items) + 1
    /\ meal_plan \in OutagePlans
    /\ ret = [op |-> "none"]

\* from macro_tracking import macro_aggregator[, day_utils]: the first
\* import in a process runs macro_db's module body, which calls
\* init_schema(); later imports find the module loaded
ImportMacroTracking(op, args, first_import) ==
    /\ ret.op = "none"
    /\ config' = IF first_import THEN init_schema(config) ELSE config
    /\ ret' = [op |-> op, args |-> args, pc |-> "imported"]
    /\ UNCHANGED <<stock, now, env, temp_items, next_id, meal_plan>>

\* the rest of get_day_macros(day)
ReturnDayMacros ==
    /\ ret.op = "get_day_macros"
    /\ ret.pc = "imported"
    /\ ret' = [op |-> ret.op, args |-> ret.args, pc |-> "returned",
               value |-> get_day_macros(ret.args.day, TRUE, TRUE)]
    /\ UNCHANGED <<stock, now, env, config, temp_items, next_id, meal_plan>>

\* the rest of get_recent_days(page, limit)
ReturnRecentDays ==
    /\ ret.op = "get_recent_days"
    /\ ret.pc = "imported"
    /\ ret' = [op |-> ret.op, args |-> ret.args, pc |-> "returned",
               value |-> get_recent_days_via(ret.args.page, ret.args.limit,
                                             TRUE, TRUE)]
    /\ UNCHANGED <<stock, now, env, config, temp_items, next_id, meal_plan>>

NextQuery ==
    \/ \E day \in OutageDayArgs, first_import \in BOOLEAN :
          ImportMacroTracking("get_day_macros", [day |-> day], first_import)
    \/ \E page \in {0, 1}, limit \in {1, 2}, first_import \in BOOLEAN :
          ImportMacroTracking("get_recent_days",
                              [page |-> page, limit |-> limit], first_import)
    \/ ReturnDayMacros
    \/ ReturnRecentDays

SpecQuery == InitQuery /\ [][NextQuery]_vars

\* C19: get_day_macros and get_recent_days are pure queries: no step of
\* either, the imports they trigger included, changes a row of
\* grocy_temp_items or grocy_config or writes to the backend.
C19_PureQueries ==
    [][/\ config' = config
       /\ temp_items' = temp_items
       /\ meal_plan' = meal_plan]_vars

----------------------------------------------------------------------------
(* Claim about the rounding of the consumed totals                         *)

\* the calories a listed consumed entry stands for, in thousandths and
\* before any conversion to int: the row's calories for a temp item, the
\* per-serving calories times the listed servings otherwise
CalorieContribution(e) ==
    IF e.type = "temp"
    THEN (CHOOSE r \in {temp_items[i] : i \in DOMAIN temp_items} :
             r.id = e.id).calories
    ELSE IF e.type = "recipe"
    THEN Mul(RecipeFloats[e.id].calories, e.servings[1])
    ELSE Mul(ProductFloats[e.id].calories, e.servings[1])

\* C20: consumed.calories of get_day_summary is the exact sum of the
\* entries' calorie contributions rounded to the nearest integer, and
\* consumed carbs, fats and protein are the sums rounded to 2 decimals;
\* fractional calorie contributions are not truncated before summing.
C20_RoundedNotTruncated ==
    ret.op = "get_day_summary" =>
        LET listed == ret.value.consumed.entries
        IN  /\ ret.value.consumed.calories
                  = RoundInt(SumOver(DOMAIN listed,
                                     [i \in DOMAIN listed |->
                                         CalorieContribution(listed[i])]))
            /\ ret.value.consumed.carbs
                  = Round2(SumOver(DOMAIN listed,
                                   [i \in DOMAIN listed |-> listed[i].carbs]))
            /\ ret.value.consumed.fats
                  = Round2(SumOver(DOMAIN listed,
                                   [i \in DOMAIN listed |-> listed[i].fats]))
            /\ ret.value.consumed.protein
                  = Round2(SumOver(DOMAIN listed,
                                   [i \in DOMAIN listed |-> listed[i].protein]))

----------------------------------------------------------------------------
(* Claim about the partition of time into logical days                     *)

\* the logical day of the instant dt under the start hour in force: the
\* calendar date of dt, or the one before when dt is earlier than the start
\* hour
LogicalDay(dt) ==
    IF dt.hh < get_day_start_hour THEN PrevDate(<<dt.y, dt.m, dt.d>>)
    ELSE <<dt.y, dt.m, dt.d>>

\* the calendar dates from two days before dt to two days after it
DatesAround(dt) ==
    {ord2ymd(ymd2ord(dt.y, dt.m, dt.d) + k) : k \in -2..2}

\* C26: for every datetime dt and start hour H exactly one day d has
\* is_datetime_in_day(dt, d) true, and d is what get_current_day_timestamp
\* returns at wall-clock time dt; the ranges of consecutive days neither
\* overlap nor leave an instant uncovered.
C26_DayPartition ==
    /\ ret.op = "is_datetime_in_day" /\ ~ret.raised =>
          (ret.value <=> ret.day = LogicalDay(ret.dt))
    /\ ret.op = "get_current_day_timestamp" =>
          \A d \in DatesAround(ret.at) :
              is_datetime_in_day(ret.at, d).val <=> d = ret.value
    /\ ret.op = "get_datetime_range_for_day" /\ ~ret.raised =>
          /\ LogicalDay(ret.value[2]) = ret.day
          /\ LogicalDay(AddSeconds(ret.value[2], 1)) # ret.day
          /\ is_datetime_in_day(AddSeconds(ret.value[2], 1),
                                strftime(AddSeconds(ret.value[1], 86400))).val

\* the first second after a day's range has been tested against that day
\* and rejected: it belongs to the next day
C26_Witness ==
    /\ ret.op = "is_datetime_in_day"
    /\ ret.day = <<2025, 1, 1>>
    /\ get_day_start_hour = 6
    /\ ret.dt = DateTime(2025, 1, 2, 6, 0, 0)
    /\ ret.value = FALSE
    /\ LogicalDay(ret.dt) = <<2025, 1, 2>>

----------------------------------------------------------------------------
(* Claim about the pages of the recent days                                *)

\* the days of the summaries of page p
PageDays(p, limit) ==
    [i \in DOMAIN get_recent_days(p, limit).days |->
        get_recent_days(p, limit).days[i].day]

\* the days of the pages p, p+1, ..., last, one after the other
RECURSIVE PagesFrom(_, _, _)
PagesFrom(p, last, limit) ==
    IF p > last THEN <<>>
    ELSE PageDays(p, limit) \o PagesFrom(p + 1, last, limit)

\* C27: for a fixed dataset and a limit >= 1 the pages 0..total_pages-1 of
\* get_recent_days partition the active days: their days lists, one after
\* the other, are every active day exactly once in descending order; each
\* page has at most limit days and only the last page may have fewer.
C27_PagesPartition ==
    ret.op = "get_recent_days" /\ ret.limit >= 1 =>
        /\ PagesFrom(0, ret.value.total_pages - 1, ret.limit)
              = SortedReverse(ActiveDays)
        /\ \A p \in 0..(ret.value.total_pages - 1) :
              /\ Len(PageDays(p, ret.limit)) <= ret.limit
              /\ p < ret.value.total_pages - 1 =>
                    Len(PageDays(p, ret.limit)) = ret.limit

----------------------------------------------------------------------------
(* Claim about consumed and planned of a day that is eaten up              *)

\* C28: for a day without temporary items on which every meal-plan entry is
\* done, get_day_summary reports consumed totals equal to the planned
\* totals for all four macros, also when a display-name lookup fails for
\* some entry.
C28_AllDoneConsumedIsPlanned ==
    /\ ret.op = "get_day_summary"
    /\ \A i \in DOMAIN temp_items : temp_items[i].day # ret.value.day
    /\ \A i \in DOMAIN meal_plan :
          meal_plan[i].day = ret.value.day => AnyDoneFlag(meal_plan[i])
    => Totals(ret.value.consumed) = Totals(ret.value.planned)

----------------------------------------------------------------------------
(* Specification SpecLedger: temporary items are logged and deleted, the   *)
(* configuration is changed, time passes and days are queried              *)

MaxLedgerId == 2

\* 05:30 and 06:30 of 1 March 2025, and 05:30 of the next morning
LedgerClocks ==
    <<DateTime(2025, 3, 1, 5, 30, 0), DateTime(2025, 3, 1, 6, 30, 0),
      DateTime(2025, 3, 2, 5, 30, 0)>>

\* mutant: an omitted day becomes the calendar date of now()
NewRow_calendar(item, day_arg) ==
    [id |-> next_id, name |-> item.name, calories |-> item.calories,
     carbs |-> item.carbs, fats |-> item.fats, protein |-> item.protein,
     day |-> IF day_arg = Absent THEN strftime(now) ELSE day_arg[1],
     created_at |-> now, day_arg |-> day_arg,
     start_hour |-> get_day_start_hour]

\* the row INSERT INTO grocy_temp_items ... RETURNING id adds: id from the
\* sequence, created_at DEFAULT NOW(); day_arg and start_hour record the
\* day argument of the call and the start hour in force, for the claims
NewRow(item, day_arg) ==
    [id |-> next_id, name |-> item.name, calories |-> item.calories,
     carbs |-> item.carbs, fats |-> item.fats, protein |-> item.protein,
     day |-> IF day_arg = Absent THEN get_current_day_timestamp
             ELSE day_arg[1],
     created_at |-> now, day_arg |-> day_arg,
     start_hour |-> get_day_start_hour]

\* mutant: the rows of the day of the item are deleted with it
delete_rows_of_day(rows, item_id) ==
    SelectSeq(rows, LAMBDA r :
        \A i \in DOMAIN rows : rows[i].id = item_id => r.day # rows[i].day)

\* DELETE FROM grocy_temp_items WHERE id = %s
delete_rows(rows, item_id) == SelectSeq(rows, LAMBDA r : r.id # item_id)

InitLedger ==
    /\ stock = InitialStock
    /\ now = LedgerClocks[1]
    /\ env = EnvUnset
    /\ config = SeededConfig
    /\ temp_items = <<>>
    /\ next_id = 1
    /\ meal_plan = <<>>
    /\ ret = [op |-> "none"]

\* integrations/macros.create_temp_item and api.create_temp_item_json:
\* day defaults to get_current_day_timestamp()
LogTempItem(item, day_arg) ==
    /\ next_id <= MaxLedgerId
    /\ temp_items' = Append(temp_items, NewRow(item, day_arg))
    /\ next_id' = next_id + 1
    /\ ret' = [op |-> "create_temp_item", value |-> next_id]
    /\ UNCHANGED <<stock, now, env, config, meal_plan>>

\* macro_db.delete_temp_item(item_id): affected > 0
DeleteTempItem(item_id) ==
    /\ temp_items' = delete_rows(temp_items, item_id)
    /\ ret' = [op |-> "delete_temp_item", id |-> item_id,
               value |-> Len(delete_rows(temp_items, item_id))
                            < Len(temp_items)]
    /\ UNCHANGED <<stock, now, env, config, next_id, meal_plan>>

\* macro_db.set_config(key, value): INSERT ... ON CONFLICT DO UPDATE
SetConfig(key, value) ==
    /\ config[key] # value
    /\ config' = [config EXCEPT ![key] = value]
    /\ ret' = [op |-> "set_config"]
    /\ UNCHANGED <<stock, now, env, temp_items, next_id, meal_plan>>

\* the wall clock reaches the next sampled time
Tick ==
    /\ \E n \in 1..(Len(LedgerClocks) - 1) :
          now = LedgerClocks[n] /\ now' = LedgerClocks[n + 1]
    /\ ret' = [op |-> "none"]
    /\ UNCHANGED <<stock, env, config, temp_items, next_id, meal_plan>>

\* integrations/macros.get_day_macros(day); on is the day it summarises
QueryDay(day_arg) ==
    /\ ret' = [op |-> "get_day_macros", day |-> day_arg,
               on |-> IF day_arg = Absent THEN get_current_day_timestamp
                      ELSE day_arg[1],
               value |-> get_day_macros(day_arg, TRUE, TRUE)]
    /\ UNCHANGED <<stock, now, env, config, temp_items, next_id, meal_plan>>

NextLedger ==
    \/ \E item \in NewTempItems, day_arg \in {Absent, Present(D1)} :
          LogTempItem(item, day_arg)
    \/ \E item_id \in 1..(MaxLedgerId + 1) : DeleteTempItem(item_id)
    \/ \E value \in {<<"6">>, <<"5">>} : SetConfig("day_start_hour", value)
    \/ SetConfig("goal_calories", <<"1", "8", "0", "0">>)
    \/ Tick
    \/ \E day_arg \in {Absent, Present(D1), Present(D2)} : QueryDay(day_arg)

SpecLedger == InitLedger /\ [][NextLedger]_vars

----------------------------------------------------------------------------
(* Claims about the life of a temporary item                               *)

\* the ids of the rows
Ids(rows) == {rows[i].id : i \in DOMAIN rows}

\* the row with the id
RowOf(rows, item_id) ==
    CHOOSE r \in {rows[i] : i \in DOMAIN rows} : r.id = item_id

\* C21: over any sequence of create_temp_item, delete_temp_item, set_config
\* and query operations a TemporaryItem's name, macros and day never change
\* after creation; a row disappears only through delete_temp_item with its
\* own id; delete_temp_item(id) removes at most that row and returns True
\* exactly when a row with that id existed; the ids create_temp_item
\* returns are pairwise distinct (each is above every id returned before).
C21_TempItemLifecycle ==
    [][/\ \A id \in Ids(temp_items) \cap Ids(temp_items') :
             RowOf(temp_items', id) = RowOf(temp_items, id)
       /\ \A id \in Ids(temp_items) \ Ids(temp_items') :
             ret'.op = "delete_temp_item" /\ ret'.id = id
       /\ ret'.op = "delete_temp_item" =>
             /\ Ids(temp_items') = Ids(temp_items) \ {ret'.id}
             /\ Len(temp_items') >= Len(temp_items) - 1
             /\ ret'.value = (ret'.id \in Ids(temp_items))
       /\ ret'.op = "create_temp_item" =>
             /\ ret'.value >= next_id
             /\ ret'.value \in Ids(temp_items') \ Ids(temp_items)
       /\ next_id' >= next_id
       /\ \A id \in Ids(temp_items') : id < next_id'
       /\ Cardinality(Ids(temp_items')) = Len(temp_items')]_vars

\* two items were logged and the first one was deleted: the second is left
C21_Witness ==
    /\ ret.op = "delete_temp_item"
    /\ ret.id = 1
    /\ ret.value = TRUE
    /\ Ids(temp_items) = {2}
    /\ next_id = 3

\* the entries of type temp of a returned summary
TempListed(summary) == SelectSeq(summary.consumed.entries, LAMBDA e : e.type = "temp")

\* the summary lists the row: exactly one temp entry with its id, with the
\* row's carbs, fats and protein and, for a whole number of calories, its
\* calories
ListsRow(summary, row) ==
    /\ Cardinality({n \in DOMAIN TempListed(summary) :
                       TempListed(summary)[n].id = row.id}) = 1
    /\ \A n \in DOMAIN TempListed(summary) :
          TempListed(summary)[n].id = row.id =>
             /\ TempListed(summary)[n].carbs = row.carbs
             /\ TempListed(summary)[n].fats = row.fats
             /\ TempListed(summary)[n].protein = row.protein
             /\ row.calories % 1000 = 0 =>
                   TempListed(summary)[n].calories * 1000 = row.calories

C30_DefaultDayIsLogicalDay ==
    /\ \A i \in DOMAIN temp_items :
          temp_items[i].day_arg = Absent =>
             temp_items[i].day
                = IF temp_items[i].created_at.hh < temp_items[i].start_hour
                  THEN PrevDate(strftime(temp_items[i].created_at))
                  ELSE strftime(temp_items[i].created_at)
    /\ ret.op = "get_day_macros" /\ ret.day = Absent =>
          \A i \in DOMAIN temp_items :
              /\ temp_items[i].day_arg = Absent
              /\ temp_items[i].start_hour = get_day_start_hour
              /\ LogicalDay(temp_items[i].created_at) = LogicalDay(now)
              => /\ "status" \notin DOMAIN ret.value
                 /\ temp_items[i].id \in Ids(TempListed(ret.value))

\* an item logged without a day at 05:30 with start hour 6 is stored under
\* 2025-02-28 and listed by get_day_macros() called at the same time
C30_Witness ==
    /\ ret.op = "get_day_macros"
    /\ ret.day = Absent
    /\ now = DateTime(2025, 3, 1, 5, 30, 0)
    /\ get_day_start_hour = 6
    /\ Len(temp_items) = 1
    /\ temp_items[1].day_arg = Absent
    /\ temp_items[1].start_hour = 6
    /\ temp_items[1].day = <<2025, 2, 28>>
    /\ Ids(TempListed(ret.value)) = {temp_items[1].id}

----------------------------------------------------------------------------
(* Claim about consuming with logging                                      *)

\* C22: after consume_product_quantity_json / GROCY_UPDATE_ConsumeProduct
\* with add_to_meal_plan=true has returned successfully, the meal plan has
\* a new entry for the product on the current logical day, and that entry
\* has its done flag set, so it is among the day's consumed entries.
C22_ConsumedIsLogged ==
    (\/ ret.op = "consume_product_quantity_json" /\ ret.pc = "returned"
     \/ ret.op = "GROCY_UPDATE_ConsumeProduct")
    => /\ ret.entry_id = Len(meal_plan)
       /\ meal_plan[ret.entry_id].product_id = Present(4)
       /\ meal_plan[ret.entry_id].day = get_current_day_timestamp
       /\ AnyDoneFlag(meal_plan[ret.entry_id])
       /\ Len(get_day_summary(get_current_day_timestamp).consumed.entries)
             = Len(FlaggedOfDay(get_current_day_timestamp))

----------------------------------------------------------------------------
(* Stock bookings: services/inventory.py, and the callers that guard them  *)
(* with the placeholder userfield or use them to set a price               *)

MaxStock == 3

\* the placeholder userfield of each product as the backend returns it
PlaceholderOf ==
    [p \in Products |-> CASE p = 6 -> Present(TRUE)
                          [] p = 3 -> Present(FALSE)
                          [] OTHER -> Absent]

\* a request that raised: the stock is as the backend left it
Refused(st) == [ok |-> FALSE, val |-> st]

\* InventoryService.add_product_quantity: ValueError unless quantity > 0,
\* then POST /stock/products/{id}/add {amount}
add_product_quantity(st, product_id, quantity, accepted) ==
    IF quantity <= 0 \/ ~accepted THEN Refused(st)
    ELSE Ok([st EXCEPT ![product_id].amount = @ + quantity])

\* InventoryService.add_product_quantity_with_price: POST .../add
\* {amount, price}
add_product_quantity_with_price(st, product_id, quantity, price, accepted) ==
    IF quantity <= 0 \/ ~accepted THEN Refused(st)
    ELSE Ok([st EXCEPT ![product_id] = [amount |-> @.amount + quantity,
                                        price |-> price]])

\* InventoryService.consume_product_quantity: POST .../consume {amount};
\* the backend refuses to book more than is in stock
consume_product_quantity(st, product_id, quantity, accepted) ==
    IF quantity <= 0 \/ ~accepted \/ st[product_id].amount < quantity
    THEN Refused(st)
    ELSE Ok([st EXCEPT ![product_id].amount = @ - quantity])

\* is_placeholder_product, and the same test inlined in the two tools:
\* bool(userfields.get("placeholder", False)), False when the lookup raised
is_placeholder_product(product_id, lookup_ok) ==
    lookup_ok /\ PlaceholderOf[product_id] = Present(TRUE)

\* add 1 unit at the price, then consume 1 unit
AddThenConsume(st, product_id, price, add_accepted, consume_accepted) ==
    IF add_product_quantity_with_price(st, product_id, 1000, price,
                                       add_accepted).ok
    THEN consume_product_quantity(
             add_product_quantity_with_price(st, product_id, 1000, price,
                                             add_accepted).val,
             product_id, 1000, consume_accepted)
    ELSE Refused(st)

\* what a stock call leaves behind: the call, the product, the amount in
\* stock before the call, and the outcome
StockReturn(op, product_id, status) ==
    [op |-> op, product_id |-> product_id,
     before |-> stock[product_id].amount, status |-> status]

\* the stock stays within the bound of the model
InBound(st) == \A p \in Products : st[p].amount <= MaxStock * 1000

----------------------------------------------------------------------------
(* Specification SpecStock: stock is added, consumed and priced, each      *)
(* backend request answered or failing                                     *)

InitStock ==
    /\ stock = InitialStock
    /\ now = DateTime(2025, 3, 1, 12, 0, 0)
    /\ env = EnvUnset
    /\ config = SeededConfig
    /\ temp_items = <<>>
    /\ next_id = 1
    /\ meal_plan = <<>>
    /\ ret = [op |-> "none"]

\* increase_product_quantity_json(product_id, quantity): an exception of
\* the add request is not caught
increase_product_quantity_json(product_id, quantity, lookup_ok, accepted) ==
    /\ InBound(add_product_quantity(stock, product_id, quantity, TRUE).val)
    /\ IF is_placeholder_product(product_id, lookup_ok)
       THEN /\ stock' = stock
            /\ ret' = StockReturn("increase_product_quantity_json",
                                  product_id, "error")
       ELSE /\ stock' = add_product_quantity(stock, product_id, quantity,
                                             accepted).val
            /\ ret' = StockReturn(
                          "increase_product_quantity_json", product_id,
                          IF add_product_quantity(stock, product_id,
                                                  quantity, accepted).ok
                          THEN "ok" ELSE "raised")
    /\ UNCHANGED <<now, env, config, temp_items, next_id, meal_plan>>

\* consume_product_quantity_json(product_id, quantity,
\* add_to_meal_plan=False)
consume_product_quantity_json(product_id, quantity, lookup_ok, accepted) ==
    /\ IF is_placeholder_product(product_id, lookup_ok)
       THEN /\ stock' = stock
            /\ ret' = StockReturn("consume_product_quantity_json",
                                  product_id, "error")
       ELSE /\ stock' = consume_product_quantity(stock, product_id,
                                                 quantity, accepted).val
            /\ ret' = StockReturn(
                          "consume_product_quantity_json", product_id,
                          IF consume_product_quantity(stock, product_id,
                                                      quantity, accepted).ok
                          THEN "ok" ELSE "raised")
    /\ UNCHANGED <<now, env, config, temp_items, next_id, meal_plan>>

\* GROCY_UPDATE_AddProductQuantity(product_id, quantity): an exception of
\* the add request becomes (False, "Error adding product quantity: ...")
GROCY_UPDATE_AddProductQuantity(product_id, quantity, lookup_ok, accepted) ==
    /\ InBound(add_product_quantity(stock, product_id, quantity, TRUE).val)
    /\ IF is_placeholder_product(product_id, lookup_ok)
       THEN /\ stock' = stock
            /\ ret' = StockReturn("GROCY_UPDATE_AddProductQuantity",
                                  product_id, "error")
       ELSE /\ stock' = add_product_quantity(stock, product_id, quantity,
                                             accepted).val
            /\ ret' = StockReturn(
                          "GROCY_UPDATE_AddProductQuantity", product_id,
                          IF add_product_quantity(stock, product_id,
                                                  quantity, accepted).ok
                          THEN "ok" ELSE "error")
    /\ UNCHANGED <<now, env, config, temp_items, next_id, meal_plan>>

\* GROCY_UPDATE_ConsumeProduct(product_id, quantity, add_to_meal_plan=False)
GROCY_UPDATE_ConsumeProduct(product_id, quantity, lookup_ok, accepted) ==
    /\ IF is_placeholder_product(product_id, lookup_ok)
       THEN /\ stock' = stock
            /\ ret' = StockReturn("GROCY_UPDATE_ConsumeProduct",
                                  product_id, "error")
       ELSE /\ stock' = consume_product_quantity(stock, product_id,
                                                 quantity, accepted).val
            /\ ret' = StockReturn(
                          "GROCY_UPDATE_ConsumeProduct", product_id,
                          IF consume_product_quantity(stock, product_id,
                                                      quantity, accepted).ok
                          THEN "ok" ELSE "error")
    /\ UNCHANGED <<now, env, config, temp_items, next_id, meal_plan>>

\* set_product_price_json(product_id, price): status error when either
\* request raised
set_product_price_json(product_id, price, add_accepted, consume_accepted) ==
    /\ InBound(add_product_quantity(stock, product_id, 1000, TRUE).val)
    /\ stock' = AddThenConsume(stock, product_id, price, add_accepted,
                               consume_accepted).val
    /\ ret' = StockReturn("set_product_price_json", product_id,
                          IF AddThenConsume(stock, product_id, price,
                                            add_accepted,
                                            consume_accepted).ok
                          THEN "ok" ELSE "error")
    /\ UNCHANGED <<now, env, config, temp_items, next_id, meal_plan>>

\* the price step of upload_walmart_links_json for one product: an
\* exception of either request is swallowed and the call goes on
UploadWalmartPrice(product_id, price, add_accepted, consume_accepted) ==
    /\ InBound(add_product_quantity(stock, product_id, 1000, TRUE).val)
    /\ stock' = AddThenConsume(stock, product_id, price, add_accepted,
                               consume_accepted).val
    /\ ret' = StockReturn("upload_walmart_links_json", product_id, "ok")
    /\ UNCHANGED <<now, env, config, temp_items, next_id, meal_plan>>

\* the price step of override_placeholder_with_real_data: taken when the
\* price is above zero, an exception of either request is swallowed
OverridePlaceholderPrice(product_id, price, add_accepted, consume_accepted) ==
    /\ InBound(add_product_quantity(stock, product_id, 1000, TRUE).val)
    /\ stock' = IF price > 0
                THEN AddThenConsume(stock, product_id, price, add_accepted,
                                    consume_accepted).val
                ELSE stock
    /\ ret' = StockReturn("override_placeholder_with_real_data",
                          product_id, "ok")
    /\ UNCHANGED <<now, env, config, temp_items, next_id, meal_plan>>

StockQuantities == {1000}

StockPrices == {0, 1990}

NextStock ==
    \/ \E p \in Products, q \in StockQuantities, l \in BOOLEAN, a \in BOOLEAN :
          increase_product_quantity_json(p, q, l, a)
    \/ \E p \in Products, q \in StockQuantities, l \in BOOLEAN, a \in BOOLEAN :
          consume_product_quantity_json(p, q, l, a)
    \/ \E p \in Products, q \in StockQuantities, l \in BOOLEAN, a \in BOOLEAN :
          GROCY_UPDATE_AddProductQuantity(p, q, l, a)
    \/ \E p \in Products, q \in StockQuantities, l \in BOOLEAN, a \in BOOLEAN :
          GROCY_UPDATE_ConsumeProduct(p, q, l, a)
    \/ \E a \in BOOLEAN, c \in BOOLEAN : set_product_price_json(4, 1990, a, c)
    \/ \E a \in BOOLEAN, c \in BOOLEAN : UploadWalmartPrice(4, 2490, a, c)
    \/ \E price \in StockPrices, a \in BOOLEAN, c \in BOOLEAN :
          OverridePlaceholderPrice(6, price, a, c)

SpecStock == InitStock /\ [][NextStock]_vars

PriceOps ==
    {"set_product_price_json", "upload_walmart_links_json",
     "override_placeholder_with_real_data"}

\* C23: setting a price by adding one unit and consuming one unit leaves
\* the amount in stock as it was before the call, whatever the call returned
\* and whichever of the two requests failed
C23_PriceKeepsStock ==
    ret.op \in PriceOps => stock[ret.product_id].amount = ret.before

GuardedOps ==
    {"increase_product_quantity_json", "consume_product_quantity_json",
     "GROCY_UPDATE_AddProductQuantity", "GROCY_UPDATE_ConsumeProduct"}

\* C24: the four guarded stock calls report no success for a product whose
\* placeholder userfield is set and leave its stock alone, and a call that
\* returned ok for any other product has changed its stock
C24_PlaceholderStockGuarded ==
    ret.op \in GuardedOps =>
        IF PlaceholderOf[ret.product_id] = Present(TRUE)
        THEN /\ ret.status # "ok"
             /\ stock[ret.product_id].amount = ret.before
        ELSE ret.status = "ok" => stock[ret.product_id].amount # ret.before

----------------------------------------------------------------------------
(* InventoryService.get_inventory: services/inventory.py                   *)

candidate_paths ==
    <<"/stock/overview", "/stock/overview/", "/stock", "/stock/",
      "/objects/products", "/objects/products/", "/stock/products",
      "/stock/products/">>

\* JSON values inside a response, as far as isinstance tells them apart
JList(items) == [t |-> "list", items |-> items]
JDict == [t |-> "dict"]
JStr == [t |-> "str"]

\* what client._get(path) does: it returns a list, a dict (its items in
\* order, each <<key, value>>) or the response text, or raises an error
\* whose response carries an HTTP status, or one that carries none
ListBody(elems) == [kind |-> "list", elems |-> elems]
DictBody(items) == [kind |-> "dict", items |-> items]
TextBody == [kind |-> "text"]
HTTPError(status) == [kind |-> "raise", status |-> Present(status)]
ConnectionError == [kind |-> "raise", status |-> Absent]

InventoryResponses ==
    { ListBody(<<>>), ListBody(<<JDict, JDict>>),
      DictBody(<<<<"data", JList(<<JDict>>)>>>>),
      DictBody(<<<<"data", JStr>>, <<"7", JDict>>>>),
      DictBody(<<<<"4", JDict>>, <<"6", JList(<<>>)>>>>),
      DictBody(<<<<"error_message", JStr>>>>),
      DictBody(<<>>),
      TextBody,
      HTTPError(404), HTTPError(405), HTTPError(500), HTTPError(401),
      ConnectionError }

\* data["data"] of a dict that has the key
DataOf(items) == items[CHOOSE i \in DOMAIN items : items[i][1] = "data"][2]

\* status in {404, 405} of the except branch; the mutant continues on every
\* error
ContinuesOn_any(status) == TRUE

ContinuesOn(status) == status \in {Present(404), Present(405)}

\* the body of the try block for the data one path returned: the value to
\* return, or Fail when the loop goes on to the next candidate
InventoryOf(data) ==
    IF data.kind = "list" THEN Ok(data.elems)
    ELSE IF data.kind = "dict"
    THEN IF /\ \E i \in DOMAIN data.items : data.items[i][1] = "data"
            /\ DataOf(data.items).t = "list"
         THEN Ok(DataOf(data.items).items)
         ELSE IF \E i \in DOMAIN data.items :
                    data.items[i][2].t \in {"dict", "list"}
         THEN Ok([i \in DOMAIN data.items |->
                     [key |-> data.items[i][1], value |-> data.items[i][2]]])
         ELSE Fail
    ELSE Fail

\* the exception raised after the last candidate
ValueError == [kind |-> "raise", status |-> Absent, type |-> "ValueError"]

\* how the call ended: with a list it returned or an error it raised
Returned(records) == Present([list |-> records])
Raised(error) == Present([error |-> error])

\* the running call: the paths requested so far, the last response, the
\* error kept in last_error, and what the call returned or raised
InventoryFrame(pc, issued, last, last_error, value) ==
    [op |-> "get_inventory", pc |-> pc, issued |-> issued, last |-> last,
     last_error |-> last_error, value |-> value]

\* the loop after a candidate was skipped: the next request, or the raise
\* behind the loop
Skipped(issued, last, last_error) ==
    IF Len(issued) < Len(candidate_paths)
    THEN InventoryFrame("request", issued, last, last_error, Absent)
    ELSE InventoryFrame("raised", issued, last, last_error,
                        IF last_error # Absent THEN Raised(last_error[1])
                        ELSE Raised(ValueError))

\* one pass of the loop for the response of its request
AfterResponse(issued, response, last_error) ==
    IF response.kind = "raise"
    THEN IF ContinuesOn(response.status)
         THEN Skipped(issued, response, Present(response))
         ELSE InventoryFrame("raised", issued, response, last_error,
                             Raised(response))
    ELSE IF InventoryOf(response).ok
    THEN InventoryFrame("returned", issued, response, last_error,
                        Returned(InventoryOf(response).val))
    ELSE Skipped(issued, response, last_error)

----------------------------------------------------------------------------
(* Specification SpecInventory: get_inventory is called and its requests   *)
(* are answered one at a time                                              *)

InitInventory ==
    /\ stock = InitialStock
    /\ now = DateTime(2025, 3, 1, 12, 0, 0)
    /\ env = EnvUnset
    /\ config = SeededConfig
    /\ temp_items = <<>>
    /\ next_id = 1
    /\ meal_plan = <<>>
    /\ ret = [op |-> "none"]

\* get_inventory() up to its first request
CallGetInventory ==
    /\ IF ret.op = "get_inventory" THEN ret.pc # "request" ELSE TRUE
    /\ ret' = InventoryFrame("request", <<>>, Absent, Absent, Absent)
    /\ UNCHANGED <<now, env, config, temp_items, next_id, meal_plan, stock>>

\* self.client._get(path) for the next candidate and the rest of that pass
\* of the loop
RequestInventory(response) ==
    /\ ret.op = "get_inventory"
    /\ ret.pc = "request"
    /\ ret' = AfterResponse(
                  Append(ret.issued, candidate_paths[Len(ret.issued) + 1]),
                  response, ret.last_error)
    /\ UNCHANGED <<now, env, config, temp_items, next_id, meal_plan, stock>>

NextInventory ==
    \/ CallGetInventory
    \/ \E response \in InventoryResponses : RequestInventory(response)

SpecInventory == InitInventory /\ [][NextInventory]_vars

\* the responses the call returns from, and the responses it skips
BareList == {r \in InventoryResponses : r.kind = "list"}

DataWrapped ==
    {r \in InventoryResponses :
        /\ r.kind = "dict"
        /\ \E i \in DOMAIN r.items :
              r.items[i][1] = "data" /\ r.items[i][2].t = "list"}

KeyedMap ==
    {r \in InventoryResponses \ DataWrapped :
        /\ r.kind = "dict"
        /\ \E i \in DOMAIN r.items : r.items[i][2].t # "str"}

NotFound == {HTTPError(404), HTTPError(405)}

Unusable ==
    {r \in InventoryResponses \ (BareList \cup DataWrapped \cup KeyedMap) :
        r.kind # "raise"}

OtherErrors == {r \in InventoryResponses : r.kind = "raise"} \ NotFound

\* C25: every request of get_inventory goes to the next candidate path in
\* the listed order; a bare list, a {data: [...]} list or a keyed map ends
\* the call with the list, the inner list or the records of the map; only
\* 404, 405 or an unusable shape leads to a further request; any other
\* error is raised at once; and nothing is requested after the call ended
C25_CandidatesInOrder ==
    [][ IF ret.op = "get_inventory" /\ ret.pc = "request"
        THEN /\ ret'.issued =
                   SubSeq(candidate_paths, 1, Len(ret.issued) + 1)
             /\ ret'.last \in BareList =>
                   /\ ret'.pc = "returned"
                   /\ ret'.value = Returned(ret'.last.elems)
             /\ ret'.last \in DataWrapped =>
                   /\ ret'.pc = "returned"
                   /\ \E i \in DOMAIN ret'.last.items :
                         /\ ret'.last.items[i][1] = "data"
                         /\ ret'.value =
                               Returned(ret'.last.items[i][2].items)
             /\ ret'.last \in KeyedMap =>
                   /\ ret'.pc = "returned"
                   /\ Len(ret'.value[1].list) = Len(ret'.last.items)
                   /\ \A i \in DOMAIN ret'.last.items :
                         ret'.value[1].list[i] =
                             [key |-> ret'.last.items[i][1],
                              value |-> ret'.last.items[i][2]]
             /\ ret'.last \in OtherErrors =>
                   /\ ret'.pc = "raised"
                   /\ ret'.value = Raised(ret'.last)
             /\ ret'.pc = "request" => ret'.last \in NotFound \cup Unusable
             /\ ret'.last \in NotFound \cup Unusable =>
                   ret'.pc = IF Len(ret'.issued) < Len(candidate_paths)
                             THEN "request" ELSE "raised"
        ELSE ret'.issued = <<>> /\ ret'.pc = "request" ]_vars

\* a keyed map ended the call at its third path, after a 404 and an
\* unusable shape
C25_Witness ==
    /\ ret.op = "get_inventory"
    /\ ret.pc = "returned"
    /\ ret.issued = <<"/stock/overview", "/stock/overview/", "/stock">>
    /\ ret.last \in KeyedMap
    /\ ret.last_error \in {Present(r) : r \in NotFound}

============================================================================
